---- MODULE Spec2Model ----
(***************************************************************************)
(* File organizer: operation log / undo, duplicate resolution and the      *)
(* scanner generations, modelled over one abstract filesystem.             *)
(***************************************************************************)
EXTENDS Integers, Sequences, FiniteSets, TLC

VARIABLES
    fs,              \* existing files: path -> [data, mtime]
    dirs,            \* existing directories
    denied,          \* paths on which the OS refuses a mutation (PermissionError)
    frontend,        \* "OperationLog" (cli_v1_5, cli_prod) or "UndoManager" (cli_v2, web_api)
    operations,      \* OperationLog.operations (in memory)
    log_file,        \* operations.json on disk
    file_operations, \* Database table file_operations
    db_operations,   \* Database table operations: number of rows, ids 1..n
    ev,              \* the last call and what it returned
    reversed,        \* history: file operation ids an UndoManager undo reported reversed
    listing,         \* the order in which the operating system lists the scanned files
    scanner,         \* the scanner instance: its kind and its accumulators
    results,         \* the report the last scan() returned
    dm,              \* the last DuplicateManager call and the operations it returned
    cache_files,     \* ScanCache: the cache file of every scanned root
    scan_cache,      \* Database table scan_cache: the rows of the scanned root, by file_path
    faults,          \* files whose stat() raises and files whose open() raises
    hist,            \* history: the tree as the last scan that filled the cache saw it
    issued           \* history: the highest id an OperationLog entry was ever given

vars == <<fs, dirs, denied, frontend, operations, log_file, file_operations,
          db_operations, ev, reversed, listing, scanner, results, dm,
          cache_files, scan_cache, faults, hist, issued>>

\* the caches and what the scans of the caching scanners depend on
cachevars == <<cache_files, scan_cache, faults, hist>>

\* what the undo commands never touch
scanvars == <<listing, scanner, results, dm, cachevars>>

-----------------------------------------------------------------------------
(* Bounds *)

MaxOps == 2

-----------------------------------------------------------------------------
(* Paths and file contents *)

P(d, b) == [dir |-> d, base |-> b, ctr |-> <<>>]

NoPath == [dir |-> "", base |-> "", ctr |-> <<>>]

\* a file's bytes, abstracted to its length and three windows of content
Data(sz, h, m, t) == [size |-> sz, head |-> h, mid |-> m, tail |-> t]

File(d, mt) == [data |-> d, mtime |-> mt]

exists(f, p) == p \in DOMAIN f

FsRemove(f, p) == [q \in (DOMAIN f) \ {p} |-> f[q]]

FsPut(f, p, v) == [q \in (DOMAIN f) \cup {p} |-> IF q = p THEN v ELSE f[q]]

\* shutil.move(src, dst) on one filesystem: os.rename, which replaces dst
shutil_move(f, d, den, src, dst) ==
    IF ~exists(f, src) \/ dst.dir \notin d \/ src \in den \/ dst \in den
    THEN [ok |-> FALSE, fs |-> f]
    ELSE [ok |-> TRUE, fs |-> FsPut(FsRemove(f, src), dst, f[src])]

\* Path.unlink()
unlink(f, den, p) ==
    IF ~exists(f, p) \/ p \in den
    THEN [ok |-> FALSE, fs |-> f]
    ELSE [ok |-> TRUE, fs |-> FsRemove(f, p)]

\* no scanner has been constructed, no scan has run, no duplicate command has run
NoScanner == [kind |-> "none", files_by_hash |-> <<>>, file_count |-> 0,
              total_size |-> 0, scans |-> 0]

NoResults == [files |-> <<>>, duplicates |-> <<>>, file_count |-> 0, total_size |-> 0]

NoCall == [fn |-> "none", keep_strategy |-> "", dry_run |-> FALSE, operations |-> <<>>]

\* no cache file in the cache directory, no row in scan_cache, every file can
\* be stat'ed and read, no caching scan has run
NoCacheFiles == [d \in {"a", "r2"} |-> [kind |-> "absent"]]

NoRows == <<>>

NoFaults == [stat |-> {}, read |-> {}]

NoHist == [valid |-> FALSE]

-----------------------------------------------------------------------------
(* OperationLog (operation_log.py) *)

UndoPaths == {P("a", "x"), P("t", "x")}

UndoFiles == {File(Data(5, 1, 1, 1), 0), File(Data(5, 2, 2, 2), 0)}

LogEntry(i, ty, s, d, cu) ==
    [id |-> i, type |-> ty, source |-> s, destination |-> d,
     undone |-> FALSE, can_undo |-> cu]

\* OperationLog._save
save(ops) == [ok |-> TRUE, ops |-> ops]

\* OperationLog._load: a missing or unparsable file gives the empty log
load(lf) == IF lf.ok THEN lf.ops ELSE <<>>

\* undo by copying the file back: the destination is left in place
undo_move_copies_back(op, f, d, den) ==
    LET source == op.source
        dest == op.destination
    IN  IF ~exists(f, dest) THEN [ok |-> FALSE, fs |-> f, dirs |-> d]
        ELSE IF exists(f, source) THEN [ok |-> FALSE, fs |-> f, dirs |-> d]
        ELSE [ok |-> TRUE, fs |-> FsPut(f, source, f[dest]), dirs |-> d \cup {source.dir}]

\* undo without the check that the source path is free
undo_move_overwrites(op, f, d, den) ==
    LET source == op.source
        dest == op.destination
    IN  IF ~exists(f, dest) THEN [ok |-> FALSE, fs |-> f, dirs |-> d]
        ELSE LET d2 == d \cup {source.dir}
                 mv == shutil_move(f, d2, den, dest, source)
             IN  [ok |-> mv.ok, fs |-> mv.fs, dirs |-> d2]

undo_move(op, f, d, den) ==
    LET source == op.source
        dest == op.destination
    IN  IF ~exists(f, dest) THEN [ok |-> FALSE, fs |-> f, dirs |-> d]
        ELSE IF exists(f, source) THEN [ok |-> FALSE, fs |-> f, dirs |-> d]
        ELSE LET d2 == d \cup {source.dir}
                 mv == shutil_move(f, d2, den, dest, source)
             IN  [ok |-> mv.ok, fs |-> mv.fs, dirs |-> d2]

undo_copy(op, f, d, den) ==
    LET dest == op.destination
    IN  IF ~exists(f, dest) THEN [ok |-> TRUE, fs |-> f, dirs |-> d]
        ELSE LET ul == unlink(f, den, dest)
             IN  [ok |-> ul.ok, fs |-> ul.fs, dirs |-> d]

\* index of the first entry with this id, 0 when there is none
FindOp(ops, id) ==
    IF \E i \in 1..Len(ops) : ops[i].id = id
    THEN CHOOSE i \in 1..Len(ops) :
            ops[i].id = id /\ \A j \in 1..(i - 1) : ops[j].id # id
    ELSE 0

OperationLog_undo_operation(ops, lf, f, d, den, operation_id) ==
    LET i == FindOp(ops, operation_id)
        fail == [ok |-> FALSE, fs |-> f, dirs |-> d, operations |-> ops, log_file |-> lf]
    IN  IF i = 0 THEN fail
        ELSE IF ops[i].undone THEN fail
        ELSE IF ~ops[i].can_undo THEN fail
        ELSE IF ops[i].type \notin {"move", "copy"} THEN fail
        ELSE LET r == IF ops[i].type = "move" THEN undo_move(ops[i], f, d, den)
                      ELSE undo_copy(ops[i], f, d, den)
                 ops2 == [ops EXCEPT ![i].undone = TRUE]
             IN  IF r.ok
                 THEN [ok |-> TRUE, fs |-> r.fs, dirs |-> r.dirs,
                       operations |-> ops2, log_file |-> save(ops2)]
                 ELSE [ok |-> FALSE, fs |-> r.fs, dirs |-> r.dirs,
                       operations |-> ops, log_file |-> lf]

\* what the last call was and what it returned
Event(fn, id, ok) ==
    [fn |-> fn, id |-> id, ok |-> ok, dry |-> FALSE, undone |-> <<>>, failed |-> <<>>,
     imm |-> FALSE]

OtherEvent == Event("other", 0, TRUE)

DbUnchanged == UNCHANGED <<file_operations, db_operations, reversed>>

LogUnchanged == UNCHANGED <<operations, log_file, issued>>

\* OperationLog.__init__ of a new process
NewOperationLog ==
    /\ frontend = "OperationLog"
    /\ operations' = load(log_file)
    /\ ev' = OtherEvent
    /\ UNCHANGED <<fs, dirs, denied, frontend, scanvars, log_file, issued>>
    /\ DbUnchanged

Append_log(ty, s, d, cu) ==
    /\ frontend = "OperationLog"
    /\ Len(operations) < MaxOps
    /\ operations' = Append(operations, LogEntry(Len(operations) + 1, ty, s, d, cu))
    /\ log_file' = save(operations')
    /\ issued' = IF Len(operations') > issued THEN Len(operations') ELSE issued
    /\ UNCHANGED <<frontend, scanvars>>
    /\ DbUnchanged

\* shutil.move(S, D) followed by log_move(S, D), as test_undo.py and the CLIs do
MoveThenLog ==
    \E s \in UndoPaths, d \in UndoPaths :
        LET mv == shutil_move(fs, dirs, denied, s, d)
        IN  /\ s # d
            /\ mv.ok
            /\ fs' = mv.fs
            /\ Append_log("move", s, d, TRUE)
            /\ ev' = Event("move+log_move", Len(operations) + 1, TRUE)
            /\ UNCHANGED <<dirs, denied>>

log_move ==
    \E s \in UndoPaths, d \in UndoPaths :
        /\ s # d
        /\ Append_log("move", s, d, TRUE)
        /\ ev' = OtherEvent
        /\ UNCHANGED <<fs, dirs, denied>>

log_copy ==
    /\ Append_log("copy", P("a", "x"), P("t", "x"), TRUE)
    /\ ev' = OtherEvent
    /\ UNCHANGED <<fs, dirs, denied>>

log_delete ==
    /\ Append_log("delete", P("a", "x"), NoPath, FALSE)
    /\ ev' = OtherEvent
    /\ UNCHANGED <<fs, dirs, denied>>

clear_log ==
    /\ frontend = "OperationLog"
    /\ operations # <<>>
    /\ operations' = <<>>
    /\ log_file' = save(operations')
    /\ ev' = OtherEvent
    /\ UNCHANGED <<fs, dirs, denied, frontend, scanvars, issued>>
    /\ DbUnchanged

OperationLogUndo ==
    \E id \in 1..MaxOps :
        LET r == OperationLog_undo_operation(operations, log_file, fs, dirs, denied, id)
        IN  /\ frontend = "OperationLog"
            /\ fs' = r.fs
            /\ dirs' = r.dirs
            /\ operations' = r.operations
            /\ log_file' = r.log_file
            /\ ev' = [Event("undo_operation", id, r.ok) EXCEPT
                          !.imm = (ev.fn = "move+log_move" /\ ev.id = id)]
            /\ UNCHANGED <<denied, frontend, scanvars, issued>>
            /\ DbUnchanged

-----------------------------------------------------------------------------
(* Database (database.py) and UndoManager (undo.py) *)

\* the rows log_file_operation is called with: <<action, source, destination, can_undo>>
DbInputs ==
    {<<"move", P("a", "x"), P("t", "x"), TRUE>>,
     <<"move", P("t", "x"), P("a", "x"), TRUE>>,
     <<"copy", P("a", "x"), P("t", "x"), TRUE>>,
     <<"delete", P("a", "x"), NoPath, TRUE>>,
     <<"delete_duplicate", P("a", "x"), NoPath, FALSE>>,
     <<"move_duplicate", P("a", "x"), P("t", "x"), TRUE>>}

OperationIds == {1, 2}

\* the CLI logs file operations under the operation it has just started
CurrentOperation == {db_operations} \ {0}

FileOp(i, oid, in) ==
    [id |-> i, operation_id |-> oid, action |-> in[1], source_path |-> in[2],
     destination_path |-> in[3], can_undo |-> in[4]]

get_file_operations(rows, operation_id) ==
    SelectSeq(rows, LAMBDA r : r.operation_id = operation_id)

\* UndoManager._undo_file_operation; raised = an exception left the method
undo_file_operation(file_op, dry_run, f, d, den) ==
    LET action == file_op.action
        source == file_op.source_path
        dest == file_op.destination_path
        st == IF dry_run THEN "simulated" ELSE "success"
        same(status) == [raised |-> FALSE, status |-> status, fs |-> f, dirs |-> d]
        raise == [raised |-> TRUE, status |-> "raised", fs |-> f, dirs |-> d]
    IN  IF action = "move"
        THEN IF dry_run THEN same(st)
             ELSE IF dest = NoPath \/ ~exists(f, dest) THEN raise
             ELSE IF exists(f, source) THEN raise
             ELSE LET d2 == d \cup {dest.dir}
                      mv == shutil_move(f, d2, den, dest, source)
                  IN  [raised |-> ~mv.ok, status |-> IF mv.ok THEN st ELSE "raised",
                       fs |-> mv.fs, dirs |-> d2]
        ELSE IF action = "copy"
        THEN IF dry_run THEN same(st)
             ELSE IF dest # NoPath /\ exists(f, dest)
             THEN LET ul == unlink(f, den, dest)
                  IN  [raised |-> ~ul.ok, status |-> IF ul.ok THEN st ELSE "raised",
                       fs |-> ul.fs, dirs |-> d]
             ELSE same(st)
        ELSE IF action = "delete" THEN same("failed")
        ELSE IF action = "rename"
        THEN IF dry_run THEN same(st)
             ELSE IF dest = NoPath \/ ~exists(f, dest) THEN raise
             ELSE IF exists(f, source) THEN raise
             ELSE LET mv == shutil_move(f, d, den, dest, source)
                  IN  [raised |-> ~mv.ok, status |-> IF mv.ok THEN st ELSE "raised",
                       fs |-> mv.fs, dirs |-> d]
        ELSE IF action = "archived_to_zip" THEN same("failed")
        ELSE same("failed")

\* the loop over reversed(file_ops): file_ops[k], file_ops[k-1], ..., file_ops[1]
RECURSIVE UndoLoop(_, _, _, _, _, _, _, _)
UndoLoop(file_ops, k, dry_run, f, d, den, undone, failed) ==
    IF k = 0 THEN [raised |-> FALSE, fs |-> f, dirs |-> d, undone |-> undone, failed |-> failed]
    ELSE IF ~file_ops[k].can_undo
    THEN UndoLoop(file_ops, k - 1, dry_run, f, d, den, undone, Append(failed, file_ops[k].id))
    ELSE LET r == undo_file_operation(file_ops[k], dry_run, f, d, den)
         IN  IF r.raised
             THEN UndoLoop(file_ops, k - 1, dry_run, r.fs, r.dirs, den, undone,
                           Append(failed, file_ops[k].id))
             ELSE UndoLoop(file_ops, k - 1, dry_run, r.fs, r.dirs, den,
                           Append(undone, [id |-> file_ops[k].id, status |-> r.status]),
                           failed)

UndoManager_undo_operation(nops, rows, f, d, den, operation_id, dry_run) ==
    LET file_ops == get_file_operations(rows, operation_id)
    IN  IF operation_id > nops \/ file_ops = <<>>
        THEN [raised |-> TRUE, fs |-> f, dirs |-> d, undone |-> <<>>, failed |-> <<>>]
        ELSE UndoLoop(file_ops, Len(file_ops), dry_run, f, d, den, <<>>, <<>>)

start_operation ==
    /\ frontend = "UndoManager"
    /\ db_operations + 1 \in OperationIds
    /\ db_operations' = db_operations + 1
    /\ ev' = OtherEvent
    /\ UNCHANGED <<fs, dirs, denied, frontend, scanvars, file_operations, reversed>>
    /\ LogUnchanged

Insert_file_operation(oid, in) ==
    /\ frontend = "UndoManager"
    /\ Len(file_operations) < MaxOps
    /\ file_operations' = Append(file_operations, FileOp(Len(file_operations) + 1, oid, in))
    /\ UNCHANGED <<frontend, scanvars, db_operations, reversed>>
    /\ LogUnchanged

log_file_operation ==
    \E oid \in CurrentOperation, in \in DbInputs :
        /\ Insert_file_operation(oid, in)
        /\ ev' = OtherEvent
        /\ UNCHANGED <<fs, dirs, denied>>

\* shutil.move(S, D) followed by log_file_operation(op, 'move', S, D)
MoveThenRecord ==
    \E oid \in CurrentOperation, s \in UndoPaths, d \in UndoPaths :
        LET mv == shutil_move(fs, dirs, denied, s, d)
        IN  /\ s # d
            /\ mv.ok
            /\ fs' = mv.fs
            /\ Insert_file_operation(oid, <<"move", s, d, TRUE>>)
            /\ ev' = Event("move+log_file_operation", oid, TRUE)
            /\ UNCHANGED <<dirs, denied>>

UndoManagerUndo ==
    \E id \in 1..(db_operations + 1), dry_run \in BOOLEAN :
        LET r == UndoManager_undo_operation(db_operations, file_operations, fs, dirs,
                                            denied, id, dry_run)
        IN  /\ frontend = "UndoManager"
            /\ fs' = r.fs
            /\ dirs' = r.dirs
            /\ ev' = [fn |-> "undo_operation", id |-> id, ok |-> ~r.raised, dry |-> dry_run,
                      undone |-> r.undone, failed |-> r.failed,
                      imm |-> (ev.fn = "move+log_file_operation" /\ ev.id = id)]
            /\ reversed' = reversed \cup {r.undone[k].id : k \in
                                {j \in 1..Len(r.undone) : r.undone[j].status = "success"}}
            /\ UNCHANGED <<denied, frontend, scanvars, file_operations, db_operations>>
            /\ LogUnchanged

-----------------------------------------------------------------------------
(* The user and other programs acting on the same filesystem *)

EnvWrite ==
    \E p \in UndoPaths, f \in UndoFiles :
        /\ p.dir \in dirs
        /\ ~(exists(fs, p) /\ fs[p] = f)
        /\ fs' = FsPut(fs, p, f)
        /\ ev' = OtherEvent
        /\ UNCHANGED <<dirs, denied, frontend, scanvars>>
        /\ LogUnchanged /\ DbUnchanged

EnvDelete ==
    \E p \in DOMAIN fs :
        /\ fs' = FsRemove(fs, p)
        /\ ev' = OtherEvent
        /\ UNCHANGED <<dirs, denied, frontend, scanvars>>
        /\ LogUnchanged /\ DbUnchanged

EnvRmdir ==
    \E d \in dirs \ {"t"} :
        /\ \A p \in DOMAIN fs : p.dir # d
        /\ dirs' = dirs \ {d}
        /\ ev' = OtherEvent
        /\ UNCHANGED <<fs, denied, frontend, scanvars>>
        /\ LogUnchanged /\ DbUnchanged

EnvChmod ==
    \E den \in {{}, {P("t", "x")}} :
        /\ den # denied
        /\ denied' = den
        /\ ev' = OtherEvent
        /\ UNCHANGED <<fs, dirs, frontend, scanvars>>
        /\ LogUnchanged /\ DbUnchanged

-----------------------------------------------------------------------------

InitUndo ==
    /\ fs = [p \in {P("a", "x")} |-> File(Data(5, 1, 1, 1), 0)]
    /\ dirs = {"a", "t"}
    /\ denied = {}
    /\ frontend \in {"OperationLog", "UndoManager"}
    /\ operations = <<>>
    /\ log_file = [ok |-> FALSE, ops |-> <<>>]
    /\ file_operations = <<>>
    /\ db_operations = 0
    /\ reversed = {}
    /\ ev = [fn |-> "other", id |-> 0, ok |-> TRUE, dry |-> FALSE,
             undone |-> <<>>, failed |-> <<>>, imm |-> FALSE]
    /\ listing = <<>>
    /\ scanner = NoScanner
    /\ results = NoResults
    /\ dm = NoCall
    /\ cache_files = NoCacheFiles
    /\ scan_cache = NoRows
    /\ faults = NoFaults
    /\ hist = NoHist
    /\ issued = 0

NextUndo ==
    \/ NewOperationLog
    \/ MoveThenLog
    \/ log_move
    \/ log_copy
    \/ log_delete
    \/ clear_log
    \/ OperationLogUndo
    \/ start_operation
    \/ log_file_operation
    \/ MoveThenRecord
    \/ UndoManagerUndo
    \/ EnvWrite
    \/ EnvDelete
    \/ EnvRmdir
    \/ EnvChmod

SpecUndo == InitUndo /\ [][NextUndo]_vars

-----------------------------------------------------------------------------
(* Undo claims *)

Range(q) == {q[k] : k \in 1..Len(q)}

\* the paths other than S and D are as they were
SameElsewhere(f, g, s, d) ==
    /\ (DOMAIN g) \ {s, d} = (DOMAIN f) \ {s, d}
    /\ \A p \in (DOMAIN f) \ {s, d} : g[p] = f[p]

\* the file that was at D is at S and nothing is at D
MovedBack(f, g, s, d) ==
    /\ exists(g, s)
    /\ g[s] = f[d]
    /\ ~exists(g, d)
    /\ SameElsewhere(f, g, s, d)

\* C1: undoing a move right after it was made and logged succeeds, puts the
\* file back at S, leaves nothing at D and marks the operation undone
C1_UndoRoundTrip ==
    [][ /\ (ev.fn = "move+log_move" /\ ev'.fn = "undo_operation" /\ ev'.id = ev.id) =>
            LET i == FindOp(operations, ev.id)
                op == operations[i]
            IN  /\ ev'.ok
                /\ MovedBack(fs, fs', op.source, op.destination)
                /\ operations'[i].undone
                /\ load(log_file')[i].undone
        /\ (/\ ev.fn = "move+log_file_operation"
            /\ ev'.fn = "undo_operation" /\ ev'.id = ev.id /\ ~ev'.dry) =>
            LET row == file_operations[Len(file_operations)]
            IN  /\ ev'.ok
                /\ ev'.undone # <<>>
                /\ ev'.undone[1] = [id |-> row.id, status |-> "success"]
                /\ Len(get_file_operations(file_operations, ev.id)) = 1 =>
                      MovedBack(fs, fs', row.source_path, row.destination_path)
      ]_vars

C1_Witness ==
    /\ frontend = "OperationLog"
    /\ ev.fn = "undo_operation" /\ ev.imm /\ ev.ok
    /\ LET op == operations[FindOp(operations, ev.id)]
       IN  op.type = "move" /\ op.undone /\ exists(fs, op.source)
           /\ ~exists(fs, op.destination)

\* C2: once an undo has succeeded the operation is marked undone on disk, and
\* a later undo request for it fails and leaves the filesystem alone
C2_UndoneStaysUndone ==
    [][ ev'.fn = "undo_operation" =>
          /\ frontend = "OperationLog" =>
                LET i == FindOp(operations, ev'.id)
                IN  i # 0 =>
                      /\ ev'.ok => operations'[i].undone /\ load(log_file')[i].undone
                      /\ operations[i].undone => ~ev'.ok /\ fs' = fs
          /\ (frontend = "UndoManager" /\ ~ev'.dry) =>
                /\ \A r \in Range(ev'.undone) : r.status = "success" => r.id \notin reversed
                /\ (\A r \in Range(get_file_operations(file_operations, ev'.id)) :
                        r.id \in reversed) => fs' = fs
      ]_vars

\* C3: an undo of a move succeeds only when the destination exists and the
\* source does not; otherwise it fails, moves nothing and leaves the
\* operation not undone
C3_UndoMovePreconditions ==
    [][ ev'.fn = "undo_operation" =>
          /\ frontend = "OperationLog" =>
                LET i == FindOp(operations, ev'.id)
                IN  (i # 0 /\ operations[i].type = "move" /\ ~operations[i].undone) =>
                      LET pre == /\ exists(fs, operations[i].destination)
                                 /\ ~exists(fs, operations[i].source)
                      IN  /\ ev'.ok => pre
                          /\ ~pre => /\ ~ev'.ok
                                     /\ fs' = fs /\ dirs' = dirs
                                     /\ ~operations'[i].undone
                                     /\ log_file' = log_file
          /\ (frontend = "UndoManager" /\ ~ev'.dry /\ ev'.ok) =>
                LET file_ops == get_file_operations(file_operations, ev'.id)
                    row == file_ops[Len(file_ops)]
                IN  (row.action = "move" /\ row.can_undo) =>
                      LET pre == /\ row.destination_path # NoPath
                                 /\ exists(fs, row.destination_path)
                                 /\ ~exists(fs, row.source_path)
                      IN  /\ [id |-> row.id, status |-> "success"] \in Range(ev'.undone)
                                => pre
                          /\ ~pre => /\ row.id \in Range(ev'.failed)
                                     /\ \A r \in Range(ev'.undone) : r.id # row.id
                                     /\ Len(file_ops) = 1 => fs' = fs /\ dirs' = dirs
      ]_vars

C3_Witness ==
    /\ frontend = "OperationLog"
    /\ ev.fn = "undo_operation" /\ ~ev.ok
    /\ LET i == FindOp(operations, ev.id)
       IN  /\ i # 0
           /\ operations[i].type = "move" /\ ~operations[i].undone
           /\ exists(fs, operations[i].destination)
           /\ exists(fs, operations[i].source)
           /\ fs[operations[i].source] # fs[operations[i].destination]

-----------------------------------------------------------------------------
(* Hashing (utils/hashing.py, FileScanner.calculate_hash) *)

QUICK_HASH_SIZE == 1048576

threshold_mb == 100

threshold_bytes == threshold_mb * 1024 * 1024

\* a digest stands for exactly the bytes that were fed to the hash function
Digest(alg, bytes) == [alg |-> alg, bytes |-> bytes]

\* FileScanner.calculate_hash: MD5 over the whole file
md5_hash(data) == Digest("md5", data)

\* hashing.calculate_hash: SHA-256 over the whole file, the empty file included
calculate_hash(data) == Digest("sha256", data)

\* hashing.quick_hash: the size, the first and the last QUICK_HASH_SIZE / 2 bytes
quick_hash(data) ==
    IF data.size <= QUICK_HASH_SIZE
    THEN calculate_hash(data)
    ELSE Digest("sha256-quick", Data(data.size, data.head, 0, data.tail))

\* hashing.smart_hash: <<hash, is_quick_hash>>
smart_hash(data) ==
    IF data.size > threshold_bytes
    THEN <<quick_hash(data), TRUE>>
    ELSE <<calculate_hash(data), FALSE>>

\* hashing.verify_duplicate(file1, file2)
verify_duplicate(f, file1, file2) ==
    IF ~exists(f, file1) \/ ~exists(f, file2) THEN FALSE
    ELSE IF f[file1].data.size # f[file2].data.size THEN FALSE
    ELSE calculate_hash(f[file1].data) = calculate_hash(f[file2].data)

-----------------------------------------------------------------------------
(* The scanned tree *)

Root == "a"

SubDir == "a/b"

TargetDir == "t"

ScanPaths == {P(Root, "x"), P(Root, "y"), P(SubDir, "x")}

\* os.walk is top-down: the files of the root come before those of its
\* subdirectory; within one directory the order is the operating system's
WalkOrders == {<<P(Root, "x"), P(Root, "y"), P(SubDir, "x")>>,
               <<P(Root, "y"), P(Root, "x"), P(SubDir, "x")>>}

walk(f, order) == SelectSeq(order, LAMBDA p : exists(f, p))

\* len(str(path)), the target's collision suffix "_k" included
NameLen(s) == CASE s = "a" -> 1 [] s = "a/b" -> 3 [] s = "t" -> 1
                [] s = "x" -> 1 [] s = "y" -> 1 [] s = ".h" -> 2 [] OTHER -> 0

PathLen(p) == NameLen(p.dir) + 1 + NameLen(p.base) + 2 * Len(p.ctr)

\* two decimal digits as character codes
TwoDigits(n) == <<48 + (n \div 10), 48 + (n % 10)>>

\* datetime.fromtimestamp(st_mtime).isoformat() for an mtime counted in half
\* seconds: "...:SS" when the microseconds are zero, "...:SS.500000" otherwise.
\* The date, hour and minute are the same for every file here and left out.
isoformat(mtime) ==
    TwoDigits(mtime \div 2) \o
        (IF mtime % 2 = 0 THEN <<>> ELSE <<46, 53, 48, 48, 48, 48, 48>>)

\* Python's str < str
RECURSIVE StrLess(_, _)
StrLess(a, b) ==
    IF b = <<>> THEN FALSE
    ELSE IF a = <<>> THEN TRUE
    ELSE IF Head(a) # Head(b) THEN Head(a) < Head(b)
    ELSE StrLess(Tail(a), Tail(b))

\* the file_info dict of one file; hash = NoHash when the key is missing.
\* st_mtime is the stat value 'modified' was formatted from.
NoHash == Digest("none", Data(0, 0, 0, 0))

FileInfo(p, file, h, quick) ==
    [path |-> p, size |-> file.data.size, st_mtime |-> file.mtime,
     modified |-> isoformat(file.mtime), hash |-> h, quick_hash |-> quick]

\* self.files_by_hash[h].append(file_info): a dict in insertion order
GroupIndex(fbh, h) == {k \in 1..Len(fbh) : fbh[k].hash = h}

files_by_hash_append(fbh, h, info) ==
    IF GroupIndex(fbh, h) = {}
    THEN Append(fbh, [hash |-> h, files |-> <<info>>])
    ELSE LET k == CHOOSE j \in GroupIndex(fbh, h) : TRUE
         IN  [fbh EXCEPT ![k].files = Append(@, info)]

\* {hash_val: files for ... if len(files) > 1}
find_groups(fbh) == SelectSeq(fbh, LAMBDA g : Len(g.files) > 1)

-----------------------------------------------------------------------------
(* FileScanner.scan (scanner.py) and ScannerV2.scan (core/scanner_v2.py) *)

MaxScans == 2

RECURSIVE SumSizes(_)
SumSizes(files) ==
    IF files = <<>> THEN 0 ELSE Head(files).size + SumSizes(Tail(files))

\* FileScanner.scan, the loop over os.walk: empty files are not hashed
RECURSIVE FileScannerLoop(_, _, _, _, _)
FileScannerLoop(seq, k, f, fbh, files) ==
    IF k > Len(seq) THEN [files_by_hash |-> fbh, files |-> files]
    ELSE LET file == f[seq[k]]
             file_hash == IF file.data.size > 0 THEN md5_hash(file.data) ELSE NoHash
             file_info == FileInfo(seq[k], file, file_hash, FALSE)
         IN  FileScannerLoop(seq, k + 1, f,
                 IF file_hash # NoHash
                 THEN files_by_hash_append(fbh, file_hash, file_info) ELSE fbh,
                 Append(files, file_info))

\* ScannerV2.scan phases 1 and 2 with the cache off: every discovered file is
\* queued and hashed, by smart_hash under quick_scan and calculate_hash otherwise
RECURSIVE ScannerV2Discover(_, _, _, _, _)
ScannerV2Discover(seq, k, f, quick_scan, files) ==
    IF k > Len(seq) THEN files
    ELSE LET file == f[seq[k]]
             result == IF quick_scan THEN smart_hash(file.data)
                       ELSE <<calculate_hash(file.data), FALSE>>
         IN  ScannerV2Discover(seq, k + 1, f, quick_scan,
                 Append(files, FileInfo(seq[k], file, result[1], result[2])))

\* ScannerV2.scan phase 4: group every file_info that carries a hash
RECURSIVE ScannerV2Organize(_, _, _)
ScannerV2Organize(files, k, fbh) ==
    IF k > Len(files) THEN fbh
    ELSE ScannerV2Organize(files, k + 1,
             IF files[k].hash # NoHash
             THEN files_by_hash_append(fbh, files[k].hash, files[k]) ELSE fbh)

\* one scan() call on the instance sc: the instance after it and the report
scan(sc, f, order, quick_scan) ==
    LET seq == walk(f, order)
        r == IF sc.kind = "FileScanner"
             THEN FileScannerLoop(seq, 1, f, sc.files_by_hash, <<>>)
             ELSE LET files == ScannerV2Discover(seq, 1, f, quick_scan, <<>>)
                  IN  [files_by_hash |-> ScannerV2Organize(files, 1, sc.files_by_hash),
                       files |-> files]
        after == [kind |-> sc.kind,
                  files_by_hash |-> r.files_by_hash,
                  file_count |-> sc.file_count + Len(r.files),
                  total_size |-> sc.total_size + SumSizes(r.files),
                  scans |-> sc.scans + 1]
    IN  [scanner |-> after,
         results |-> [files |-> r.files,
                      duplicates |-> find_groups(after.files_by_hash),
                      file_count |-> after.file_count,
                      total_size |-> after.total_size]]

-----------------------------------------------------------------------------
(* DuplicateManager (duplicates.py) *)

KeepStrategies == {"newest", "oldest", "shortest_path", "first"}

\* an order that also puts a before b when their keys are equal
BeforeOrEqual(keep_strategy, a, b) ==
    CASE keep_strategy = "newest" -> ~StrLess(a.modified, b.modified)
      [] keep_strategy = "oldest" -> ~StrLess(b.modified, a.modified)
      [] keep_strategy = "shortest_path" -> PathLen(a.path) <= PathLen(b.path)
      [] OTHER -> FALSE

\* a sorts strictly before b under the key of the strategy
Before(keep_strategy, a, b) ==
    CASE keep_strategy = "newest" -> StrLess(b.modified, a.modified)
      [] keep_strategy = "oldest" -> StrLess(a.modified, b.modified)
      [] keep_strategy = "shortest_path" -> PathLen(a.path) < PathLen(b.path)
      [] OTHER -> FALSE

\* put e behind every element it does not sort strictly before
RECURSIVE InsertSorted(_, _, _)
InsertSorted(keep_strategy, done, e) ==
    IF done = <<>> THEN <<e>>
    ELSE IF Before(keep_strategy, e, Head(done)) THEN <<e>> \o done
    ELSE <<Head(done)>> \o InsertSorted(keep_strategy, Tail(done), e)

\* sorted(files, key=..., reverse=...): stable in both directions
RECURSIVE sorted(_, _, _, _)
sorted(keep_strategy, files, k, done) ==
    IF k > Len(files) THEN done
    ELSE sorted(keep_strategy, files, k + 1, InsertSorted(keep_strategy, done, files[k]))

files_sorted(keep_strategy, files) ==
    IF keep_strategy \in {"newest", "oldest", "shortest_path"}
    THEN sorted(keep_strategy, files, 1, <<>>)
    ELSE files

\* the (file, survivor) pairs the two loops visit, group by group
GroupPlan(keep_strategy, g) ==
    IF Len(g.files) <= 1 THEN <<>>
    ELSE LET fsorted == files_sorted(keep_strategy, g.files)
         IN  [k \in 1..(Len(fsorted) - 1) |->
                 [file_info |-> fsorted[k + 1], keep_file |-> fsorted[1], hash |-> g.hash]]

RECURSIVE Plan(_, _, _)
Plan(keep_strategy, duplicates, k) ==
    IF k > Len(duplicates) THEN <<>>
    ELSE GroupPlan(keep_strategy, duplicates[k]) \o Plan(keep_strategy, duplicates, k + 1)

DeleteOp(e, status) ==
    [action |-> "delete_duplicate", path |-> e.file_info.path,
     size |-> e.file_info.size, kept_file |-> e.keep_file.path,
     hash |-> e.hash, status |-> status]

\* a loop that lets the first failed unlink end the call
RECURSIVE RemoveLoopAborting(_, _, _, _, _, _)
RemoveLoopAborting(plan, k, dry_run, f, den, ops) ==
    IF k > Len(plan) THEN [operations |-> ops, fs |-> f]
    ELSE LET u == unlink(f, den, plan[k].file_info.path)
         IN  IF dry_run
             THEN RemoveLoopAborting(plan, k + 1, dry_run, f, den,
                      Append(ops, DeleteOp(plan[k], "simulated")))
             ELSE IF u.ok
             THEN RemoveLoopAborting(plan, k + 1, dry_run, u.fs, den,
                      Append(ops, DeleteOp(plan[k], "deleted")))
             ELSE [operations |-> Append(ops, DeleteOp(plan[k], "failed")), fs |-> f]

\* remove_duplicates, the loop over remove_files of every group
RECURSIVE RemoveLoop(_, _, _, _, _, _)
RemoveLoop(plan, k, dry_run, f, den, ops) ==
    IF k > Len(plan) THEN [operations |-> ops, fs |-> f]
    ELSE LET u == unlink(f, den, plan[k].file_info.path)
         IN  IF dry_run
             THEN RemoveLoop(plan, k + 1, dry_run, f, den,
                      Append(ops, DeleteOp(plan[k], "simulated")))
             ELSE IF u.ok
             THEN RemoveLoop(plan, k + 1, dry_run, u.fs, den,
                      Append(ops, DeleteOp(plan[k], "deleted")))
             ELSE RemoveLoop(plan, k + 1, dry_run, f, den,
                      Append(ops, DeleteOp(plan[k], "failed")))

remove_duplicates(duplicates, keep_strategy, dry_run, f, den) ==
    RemoveLoop(Plan(keep_strategy, duplicates, 1), 1, dry_run, f, den, <<>>)

\* target_path.mkdir(parents=True, exist_ok=True), whatever dry_run says
mkdir_always(d, target_dir, dry_run) == d \cup {target_dir}

\* if not self.dry_run: target_path.mkdir(parents=True, exist_ok=True)
mkdir_target(d, target_dir, dry_run) ==
    IF dry_run THEN d ELSE d \cup {target_dir}

free_dest_unchecked(f, target_dir, name, counter) ==
    [dir |-> target_dir, base |-> name, ctr |-> <<>>]

\* target_path / name, then name_1, name_2, ... while dest_path.exists();
\* ctr <<n>> stands for the name f"{stem}_{n}{suffix}"
RECURSIVE free_dest(_, _, _, _)
free_dest(f, target_dir, name, counter) ==
    LET dest_path == [dir |-> target_dir, base |-> name,
                      ctr |-> IF counter = 0 THEN <<>> ELSE <<counter>>]
    IN  IF exists(f, dest_path) THEN free_dest(f, target_dir, name, counter + 1)
        ELSE dest_path

MoveOp(e, dest_path, status) ==
    [action |-> "move_duplicate", source |-> e.file_info.path,
     destination |-> dest_path, size |-> e.file_info.size,
     kept_file |-> e.keep_file.path, hash |-> e.hash, status |-> status]

\* move_duplicates, the loop over move_files of every group
RECURSIVE MoveLoop(_, _, _, _, _, _, _, _)
MoveLoop(plan, k, target_dir, dry_run, f, d, den, ops) ==
    IF k > Len(plan) THEN [operations |-> ops, fs |-> f, dirs |-> d]
    ELSE LET source_path == plan[k].file_info.path
             dest_path == free_dest(f, target_dir, source_path.base, 0)
             mv == shutil_move(f, d, den, source_path, dest_path)
         IN  IF dry_run
             THEN MoveLoop(plan, k + 1, target_dir, dry_run, f, d, den,
                      Append(ops, MoveOp(plan[k], dest_path, "simulated")))
             ELSE IF mv.ok
             THEN MoveLoop(plan, k + 1, target_dir, dry_run, mv.fs, d, den,
                      Append(ops, MoveOp(plan[k], dest_path, "moved")))
             ELSE MoveLoop(plan, k + 1, target_dir, dry_run, f, d, den,
                      Append(ops, MoveOp(plan[k], dest_path, "failed")))

move_duplicates(duplicates, target_dir, keep_strategy, dry_run, f, d, den) ==
    MoveLoop(Plan(keep_strategy, duplicates, 1), 1, target_dir, dry_run, f,
             mkdir_target(d, target_dir, dry_run), den, <<>>)

-----------------------------------------------------------------------------
(* A scan followed by a duplicate command, on a tree other programs touch *)

Empty == Data(0, 0, 0, 0)

Small == Data(5, 1, 1, 1)

\* two files above the smart_hash threshold that differ only in the middle
BigA == Data(threshold_bytes + 1, 1, 1, 1)

BigB == Data(threshold_bytes + 1, 1, 2, 1)

\* what one tree holds: small files with mtimes 9.5 s and 10 s into the minute,
\* or empty and small files, or large files
DupFiles == {{File(Small, 19), File(Small, 20)},
             {File(Empty, 19), File(Small, 19)},
             {File(BigA, 19), File(BigB, 19)}}

SourceTrees ==
    UNION {[S -> F] : S \in {T \in SUBSET ScanPaths : Cardinality(T) >= 2}, F \in DupFiles}

\* the scanned file another program removes or protects
EnvPaths == {P(Root, "y")}

\* the target directory: missing, empty, or already holding a file named x
TargetTrees == {[dirs |-> {Root, SubDir}, files |-> {}],
                [dirs |-> {Root, SubDir, TargetDir}, files |-> {}],
                [dirs |-> {Root, SubDir, TargetDir}, files |-> {P(TargetDir, "x")}]}

UndoUnchanged ==
    UNCHANGED <<frontend, operations, log_file, file_operations, db_operations,
                ev, reversed, listing, cachevars, issued>>

NewScanner ==
    /\ scanner.scans > 0
    /\ dm.fn = "none"
    /\ scanner' = [NoScanner EXCEPT !.kind = scanner.kind]
    /\ UNCHANGED <<fs, dirs, denied, results, dm>>
    /\ UndoUnchanged

Scan ==
    \E quick_scan \in BOOLEAN :
        LET r == scan(scanner, fs, listing, quick_scan)
        IN  /\ scanner.scans < MaxScans
            /\ dm.fn = "none"
            /\ quick_scan => scanner.kind = "ScannerV2"
            /\ scanner' = r.scanner
            /\ results' = r.results
            /\ UNCHANGED <<fs, dirs, denied, dm>>
            /\ UndoUnchanged

RemoveDuplicates ==
    \E keep_strategy \in KeepStrategies, dry_run \in BOOLEAN :
        LET r == remove_duplicates(results.duplicates, keep_strategy, dry_run, fs, denied)
        IN  /\ results.duplicates # <<>>
            /\ dm.fn = "none"
            /\ fs' = r.fs
            /\ dm' = [fn |-> "remove_duplicates", keep_strategy |-> keep_strategy,
                      dry_run |-> dry_run, operations |-> r.operations]
            /\ UNCHANGED <<dirs, denied, scanner, results>>
            /\ UndoUnchanged

MoveDuplicates ==
    \E keep_strategy \in KeepStrategies, dry_run \in BOOLEAN :
        LET r == move_duplicates(results.duplicates, TargetDir, keep_strategy, dry_run,
                                 fs, dirs, denied)
        IN  /\ results.duplicates # <<>>
            /\ dm.fn = "none"
            /\ fs' = r.fs
            /\ dirs' = r.dirs
            /\ dm' = [fn |-> "move_duplicates", keep_strategy |-> keep_strategy,
                      dry_run |-> dry_run, operations |-> r.operations]
            /\ UNCHANGED <<denied, scanner, results>>
            /\ UndoUnchanged

\* between the scan and the command another program removes a scanned file ...
DupEnvDelete ==
    \E p \in (DOMAIN fs) \cap EnvPaths :
        /\ results.duplicates # <<>>
        /\ denied = {}
        /\ dm.fn = "none"
        /\ fs' = FsRemove(fs, p)
        /\ UNCHANGED <<dirs, denied, scanner, results, dm>>
        /\ UndoUnchanged

\* ... or takes the permission to change one away
DupEnvChmod ==
    \E p \in (DOMAIN fs) \cap EnvPaths :
        /\ results.duplicates # <<>>
        /\ dm.fn = "none"
        /\ denied = {}
        /\ denied' = {p}
        /\ UNCHANGED <<fs, dirs, scanner, results, dm>>
        /\ UndoUnchanged

InitDup ==
    /\ \E src \in SourceTrees, tgt \in TargetTrees :
        /\ fs = [p \in (DOMAIN src) \cup tgt.files |->
                    IF p \in DOMAIN src THEN src[p] ELSE File(Small, 19)]
        /\ dirs = tgt.dirs
    /\ denied = {}
    /\ frontend = "DuplicateManager"
    /\ operations = <<>>
    /\ log_file = [ok |-> FALSE, ops |-> <<>>]
    /\ file_operations = <<>>
    /\ db_operations = 0
    /\ reversed = {}
    /\ ev = OtherEvent
    /\ listing \in WalkOrders
    /\ scanner \in {[NoScanner EXCEPT !.kind = k] : k \in {"FileScanner", "ScannerV2"}}
    /\ results = NoResults
    /\ dm = NoCall
    /\ cache_files = NoCacheFiles
    /\ scan_cache = NoRows
    /\ faults = NoFaults
    /\ hist = NoHist
    /\ issued = 0

NextDup ==
    \/ NewScanner
    \/ Scan
    \/ RemoveDuplicates
    \/ MoveDuplicates
    \/ DupEnvDelete
    \/ DupEnvChmod

SpecDup == InitDup /\ [][NextDup]_vars

-----------------------------------------------------------------------------
(* Duplicate resolution claims *)

\* the step is a call of one of the two duplicate commands
Resolves == dm.fn = "none" /\ dm'.fn # "none"

OpPath(op) == IF op.action = "delete_duplicate" THEN op.path ELSE op.source

OpsOf(ops, h) == SelectSeq(ops, LAMBDA op : op.hash = h)

\* C4: a dry run of move_duplicates reports for every non-survivor the same
\* destination as the real run started from the same filesystem state reports.
C4_DryRunFidelity ==
    [][ (Resolves /\ dm'.fn = "move_duplicates" /\ dm'.dry_run) =>
            LET real == move_duplicates(results.duplicates, TargetDir, dm'.keep_strategy,
                                        FALSE, fs, dirs, denied).operations
                dry == dm'.operations
            IN  /\ Len(dry) = Len(real)
                /\ \A k \in 1..Len(dry) :
                       /\ dry[k].source = real[k].source
                       /\ dry[k].destination = real[k].destination ]_vars

\* C5: with dry_run=True both commands leave files and directories as they
\* were and report every operation as 'simulated'.
C5_DryRunFrame ==
    [][ (Resolves /\ dm'.dry_run) =>
            /\ fs' = fs
            /\ dirs' = dirs
            /\ \A k \in 1..Len(dm'.operations) : dm'.operations[k].status = "simulated" ]_vars

C5_Witness ==
    /\ dm.fn = "move_duplicates"
    /\ dm.dry_run
    /\ dm.operations # <<>>
    /\ TargetDir \notin dirs

\* the key a strategy minimises, from the file's own mtime and path
StrategyKey(keep_strategy, info) ==
    CASE keep_strategy = "newest" -> 0 - info.st_mtime
      [] keep_strategy = "oldest" -> info.st_mtime
      [] keep_strategy = "shortest_path" -> PathLen(info.path)
      [] OTHER -> 0

\* the first entry in stored order among those with the best key
ExpectedSurvivor(keep_strategy, files) ==
    LET best == {k \in 1..Len(files) :
                    \A j \in 1..Len(files) :
                        StrategyKey(keep_strategy, files[k]) <= StrategyKey(keep_strategy, files[j])}
    IN  files[CHOOSE k \in best : \A j \in best : k <= j]

\* C6: the survivor of every group is the entry with the latest mtime
\* ('newest'), the earliest ('oldest'), the shortest path ('shortest_path') or
\* the first entry ('first'), and among tied entries the first in stored order.
C6_KeepStrategy ==
    [][ Resolves =>
            \A i \in 1..Len(results.duplicates) :
                LET g == results.duplicates[i]
                    ops == OpsOf(dm'.operations, g.hash)
                IN  /\ ops # <<>>
                    /\ \A k \in 1..Len(ops) :
                           ops[k].kept_file = ExpectedSurvivor(dm'.keep_strategy, g.files).path ]_vars

C6_Witness ==
    /\ dm.fn # "none"
    /\ dm.keep_strategy = "newest"
    /\ \E i \in 1..Len(results.duplicates) :
           LET files == results.duplicates[i].files
           IN  /\ Len(files) = 3
               /\ files[1].st_mtime < files[2].st_mtime
               /\ files[2].st_mtime = files[3].st_mtime
               /\ \E k \in 1..Len(dm.operations) :
                      /\ dm.operations[k].kept_file = files[2].path
                      /\ OpPath(dm.operations[k]) = files[3].path

\* C7: a group of n entries yields exactly n-1 operations and none of them is
\* on the survivor's path.
C7_OnePerNonSurvivor ==
    [][ Resolves =>
            \A i \in 1..Len(results.duplicates) :
                LET g == results.duplicates[i]
                    ops == OpsOf(dm'.operations, g.hash)
                IN  /\ Len(ops) = Len(g.files) - 1
                    /\ \A k \in 1..Len(ops) : OpPath(ops[k]) # ops[k].kept_file ]_vars

\* the operation on p can succeed: the file is there, may be changed, and no
\* earlier operation of the call has taken it away
CanAct(ops, k, f, den) ==
    /\ exists(f, OpPath(ops[k]))
    /\ OpPath(ops[k]) \notin den
    /\ \A j \in 1..(k - 1) : OpPath(ops[j]) = OpPath(ops[k]) => ops[j].status = "failed"

\* C8: in a real run a file that cannot be deleted or moved is recorded as
\* 'failed', every other non-survivor is still deleted or moved, and there is
\* one record per non-survivor.
C8_FailureDoesNotStop ==
    [][ (Resolves /\ ~dm'.dry_run) =>
            LET ops == dm'.operations
            IN  /\ \A i \in 1..Len(results.duplicates) :
                       LET g == results.duplicates[i]
                           mine == OpsOf(ops, g.hash)
                       IN  /\ Len(mine) = Len(g.files) - 1
                           /\ \A j \in 1..Len(g.files) :
                                  \/ \E k \in 1..Len(mine) : OpPath(mine[k]) = g.files[j].path
                                  \/ \A k \in 1..Len(mine) : mine[k].kept_file = g.files[j].path
                /\ \A k \in 1..Len(ops) :
                       IF CanAct(ops, k, fs, denied)
                       THEN /\ ops[k].status \in {"deleted", "moved"}
                            /\ ~exists(fs', OpPath(ops[k]))
                       ELSE ops[k].status = "failed" ]_vars

C8_Witness ==
    /\ dm.fn # "none"
    /\ ~dm.dry_run
    /\ \E j \in 1..Len(dm.operations), k \in 1..Len(dm.operations) :
           /\ j < k
           /\ dm.operations[j].status = "failed"
           /\ dm.operations[k].status \in {"deleted", "moved"}
           /\ ~exists(fs, OpPath(dm.operations[k]))

\* C9: a file grouped by a quick hash is deleted or moved only if it equals
\* the survivor in size and full hash; otherwise it is left in place.
C9_VerifyBeforeDelete ==
    [][ (Resolves /\ ~dm'.dry_run) =>
            \A k \in 1..Len(dm'.operations) :
                LET op == dm'.operations[k]
                IN  (/\ op.hash.alg = "sha256-quick"
                     /\ exists(fs, OpPath(op))
                     /\ ~verify_duplicate(fs, OpPath(op), op.kept_file))
                    => (exists(fs', OpPath(op)) /\ fs'[OpPath(op)] = fs[OpPath(op)]) ]_vars

\* C10: no report of any scanner lists a file of size zero in a duplicate group.
C10_NoEmptyFileInGroup ==
    \A i \in 1..Len(results.duplicates) :
        \A k \in 1..Len(results.duplicates[i].files) :
            results.duplicates[i].files[k].size # 0

-----------------------------------------------------------------------------
(* Scan report claims *)

\* the step is a scan() call on the instance
Scans == scanner'.scans = scanner.scans + 1

\* the tree is as the report shows it: same files, sizes and mtimes
TreeAsReported(report, f, order) ==
    LET seq == walk(f, order)
    IN  /\ Len(seq) = Len(report.files)
        /\ \A k \in 1..Len(seq) :
               /\ report.files[k].path = seq[k]
               /\ report.files[k].size = f[seq[k]].data.size
               /\ report.files[k].st_mtime = f[seq[k]].mtime

NoPathTwice(files) ==
    \A j \in 1..Len(files), k \in 1..Len(files) :
        files[j].path = files[k].path => j = k

\* C19: every scan() of an instance, the first and each repetition over an
\* unchanged directory, returns file_count = number of files entries,
\* total_size = sum of their sizes, and groups that list no path twice.
C19_ReportBuiltFresh ==
    [][ (Scans /\ (scanner.scans = 0 \/ TreeAsReported(results, fs, listing))) =>
            /\ results'.file_count = Len(results'.files)
            /\ results'.total_size = SumSizes(results'.files)
            /\ \A i \in 1..Len(results'.duplicates) :
                   NoPathTwice(results'.duplicates[i].files) ]_vars

-----------------------------------------------------------------------------
(* ScanCache (cache.py): one JSON file per scanned root *)

OtherRoot == "r2"

CacheRoots == {Root, OtherRoot}

AbsentFile == [kind |-> "absent"]

\* what json.dump writes in ScanCache.set
json_dump(directory, scan_results) ==
    [kind |-> "json", directory |-> directory, results |-> scan_results]

\* ScanCache.get: open + json.load + the 'directory' check.  A file that is
\* not JSON raises JSONDecodeError, which is caught; a file that is not UTF-8
\* text raises UnicodeDecodeError, which is not.
cache_get(cf, directory) ==
    LET file == cf[directory]
    IN  IF file.kind = "not_utf8"
        THEN [raised |-> TRUE, found |-> FALSE, cached |-> AbsentFile]
        ELSE IF file.kind = "json" /\ file.directory = directory
        THEN [raised |-> FALSE, found |-> TRUE, cached |-> file]
        ELSE [raised |-> FALSE, found |-> FALSE, cached |-> AbsentFile]

\* ScanCache.set
cache_set(cf, directory, scan_results) ==
    [cf EXCEPT ![directory] = json_dump(directory, scan_results)]

\* an invalidate that leaves the file where it is
invalidate_keeping(cf, directory) == cf

\* ScanCache.invalidate: unlink of the root's file, in the cache directory
\* that ScanCache.__init__ created (unlink and write succeed there)
invalidate(cf, directory) == [cf EXCEPT ![directory] = AbsentFile]

\* ScanCache.clear_all
clear_all(cf) == [d \in DOMAIN cf |-> AbsentFile]

-----------------------------------------------------------------------------
(* CachedFileScanner.scan (scanner_cached.py), ProductionScanner.scan       *)
(* (scanner_production.py)                                                  *)

\* a new instance; errors is ProductionScanner's self.errors
NewInstance(kind) ==
    [kind |-> kind, files_by_hash |-> <<>>, file_count |-> 0, total_size |-> 0,
     scans |-> 0, errors |-> <<>>]

\* the loop over the walked files: a stat failure skips the file (and
\* ProductionScanner notes it in self.errors), a hash failure leaves the file
\* without a hash, empty files are not hashed
RECURSIVE ProcessFiles(_, _, _, _, _, _)
ProcessFiles(seq, k, f, flt, sc, files) ==
    IF k > Len(seq) THEN [scanner |-> sc, files |-> files]
    ELSE IF seq[k] \in flt.stat
    THEN ProcessFiles(seq, k + 1, f, flt,
             [sc EXCEPT !.errors = IF sc.kind = "ProductionScanner"
                                   THEN Append(@, seq[k]) ELSE @],
             files)
    ELSE LET file == f[seq[k]]
             file_hash == IF file.data.size > 0 /\ seq[k] \notin flt.read
                          THEN md5_hash(file.data) ELSE NoHash
             file_info == FileInfo(seq[k], file, file_hash, FALSE)
         IN  ProcessFiles(seq, k + 1, f, flt,
                 [sc EXCEPT !.files_by_hash =
                                IF file_hash # NoHash
                                THEN files_by_hash_append(@, file_hash, file_info) ELSE @,
                            !.total_size = @ + file.data.size,
                            !.file_count = @ + 1],
                 Append(files, file_info))

\* the report a full scan returns; only ProductionScanner's has 'errors'
Report(sc, files) ==
    LET r == [files |-> files, duplicates |-> find_groups(sc.files_by_hash),
              file_count |-> sc.file_count, total_size |-> sc.total_size]
    IN  IF sc.kind = "ProductionScanner" THEN r @@ [errors |-> sc.errors] ELSE r

\* a scan() that trusts the stored report only while the tree is as it shows
whole_scan_checking(sc, cf, f, order, flt, use_cache) ==
    LET got == IF use_cache THEN cache_get(cf, Root)
               ELSE [raised |-> FALSE, found |-> FALSE, cached |-> AbsentFile]
        called == [sc EXCEPT !.scans = @ + 1]
        r == ProcessFiles(walk(f, order), 1, f, flt, called, <<>>)
        report == Report(r.scanner, r.files)
    IN  IF got.raised
        THEN [raised |-> TRUE, walked |-> FALSE, scanner |-> called,
              results |-> NoResults, cache_files |-> cf]
        ELSE IF got.found /\ TreeAsReported(got.cached.results, f, order)
        THEN [raised |-> FALSE, walked |-> FALSE, scanner |-> called,
              results |-> got.cached.results, cache_files |-> cf]
        ELSE [raised |-> FALSE, walked |-> TRUE, scanner |-> r.scanner,
              results |-> report,
              cache_files |-> IF use_cache THEN cache_set(cf, Root, report) ELSE cf]

\* scan() with use_cache: the stored report if ScanCache.get finds one, else a
\* full scan whose report is stored
whole_scan(sc, cf, f, order, flt, use_cache) ==
    LET got == IF use_cache THEN cache_get(cf, Root)
               ELSE [raised |-> FALSE, found |-> FALSE, cached |-> AbsentFile]
        called == [sc EXCEPT !.scans = @ + 1]
        r == ProcessFiles(walk(f, order), 1, f, flt, called, <<>>)
        report == Report(r.scanner, r.files)
    IN  IF got.raised
        THEN [raised |-> TRUE, walked |-> FALSE, scanner |-> called,
              results |-> NoResults, cache_files |-> cf]
        ELSE IF got.found
        THEN [raised |-> FALSE, walked |-> FALSE, scanner |-> called,
              results |-> got.cached.results, cache_files |-> cf]
        ELSE [raised |-> FALSE, walked |-> TRUE, scanner |-> r.scanner,
              results |-> report,
              cache_files |-> IF use_cache THEN cache_set(cf, Root, report) ELSE cf]

-----------------------------------------------------------------------------
(* ScannerV2.scan with the per-file cache (core/scanner_v2.py, database.py) *)

\* Database.update_scan_cache: INSERT OR REPLACE of the row of file_path
update_scan_cache(rows, file_path, file_info) ==
    [q \in (DOMAIN rows) \cup {file_path} |->
        IF q = file_path
        THEN [file_hash |-> file_info.hash, file_size |-> file_info.size,
              modified_time |-> file_info.st_mtime]
        ELSE rows[q]]

\* Database.get_scan_cache: the rows of the directory, by file_path
get_scan_cache(rows) == rows

\* phase 1: a file is served from its row iff the row's modified_time equals
\* st_mtime; a file whose stat() raises is left out
RECURSIVE V2Discover(_, _, _, _, _, _)
V2Discover(seq, k, f, flt, cached_files, files) ==
    IF k > Len(seq) THEN files
    ELSE IF seq[k] \in flt.stat THEN V2Discover(seq, k + 1, f, flt, cached_files, files)
    ELSE LET file == f[seq[k]]
             hit == /\ seq[k] \in DOMAIN cached_files
                    /\ cached_files[seq[k]].modified_time = file.mtime
             file_info == IF hit
                          THEN [FileInfo(seq[k], file, cached_files[seq[k]].file_hash, FALSE)
                                   EXCEPT !.size = cached_files[seq[k]].file_size]
                               @@ [cached |-> TRUE]
                          ELSE FileInfo(seq[k], file, NoHash, FALSE) @@ [cached |-> FALSE]
         IN  V2Discover(seq, k + 1, f, flt, cached_files, Append(files, file_info))

\* what a hashing worker returns for a file: <<hash, is_quick>>; a file that
\* cannot be read gives None
hash_result(f, flt, p, quick_scan) ==
    IF p \in flt.read \/ ~exists(f, p) THEN <<NoHash, FALSE>>
    ELSE IF quick_scan THEN smart_hash(f[p].data)
    ELSE <<calculate_hash(f[p].data), FALSE>>

\* the indices of files_to_process in results['files']
ToProcess(files) == {k \in 1..Len(files) : ~files[k].cached}

\* the orders in which the workers can complete
Completions(S) ==
    {q \in [1..Cardinality(S) -> S] : \A i, j \in 1..Cardinality(S) : q[i] = q[j] => i = j}

\* a collection loop that hands the k-th result to the k-th submitted file
RECURSIVE hash_files_by_position(_, _, _, _, _, _)
hash_files_by_position(files, f, flt, quick_scan, completion, k) ==
    IF k > Len(completion) THEN files
    ELSE LET target == CHOOSE i \in ToProcess(files) :
                           Cardinality({j \in ToProcess(files) : j < i}) = k - 1
             result == hash_result(f, flt, files[completion[k]].path, quick_scan)
         IN  hash_files_by_position(
                 [files EXCEPT ![target].hash = result[1], ![target].quick_hash = result[2]],
                 f, flt, quick_scan, completion, k + 1)

\* _hash_files_parallel: futures[future] is the file_info the future was
\* submitted for; results are collected in completion order
RECURSIVE hash_files_parallel(_, _, _, _, _, _)
hash_files_parallel(files, f, flt, quick_scan, completion, k) ==
    IF k > Len(completion) THEN files
    ELSE LET result == hash_result(f, flt, files[completion[k]].path, quick_scan)
         IN  hash_files_parallel(
                 [files EXCEPT ![completion[k]].hash = result[1],
                               ![completion[k]].quick_hash = result[2]],
                 f, flt, quick_scan, completion, k + 1)

\* _hash_files_sequential: one file after the other, in list order
RECURSIVE hash_files_sequential(_, _, _, _, _)
hash_files_sequential(files, f, flt, quick_scan, k) ==
    IF k > Len(files) THEN files
    ELSE IF files[k].cached THEN hash_files_sequential(files, f, flt, quick_scan, k + 1)
    ELSE LET result == hash_result(f, flt, files[k].path, quick_scan)
         IN  hash_files_sequential(
                 [files EXCEPT ![k].hash = result[1], ![k].quick_hash = result[2]],
                 f, flt, quick_scan, k + 1)

\* phase 4, the cache part: a row for every file that was not served from cache
RECURSIVE V2UpdateCache(_, _, _)
V2UpdateCache(files, k, rows) ==
    IF k > Len(files) THEN rows
    ELSE V2UpdateCache(files, k + 1,
             IF files[k].cached THEN rows
             ELSE update_scan_cache(rows, files[k].path, files[k]))

RECURSIVE SumStatSizes(_, _)
SumStatSizes(files, f) ==
    IF files = <<>> THEN 0
    ELSE f[Head(files).path].data.size + SumStatSizes(Tail(files), f)

\* one scan() call of a ScannerV2 instance
incremental_scan(sc, rows, f, order, flt, use_cache, quick_scan, update_cache, parallel_hashing, completion) ==
    LET cached_files == IF use_cache THEN get_scan_cache(rows) ELSE <<>>
        found == V2Discover(walk(f, order), 1, f, flt, cached_files, <<>>)
        files == IF parallel_hashing
                 THEN hash_files_parallel(found, f, flt, quick_scan, completion, 1)
                 ELSE hash_files_sequential(found, f, flt, quick_scan, 1)
        after == [sc EXCEPT !.files_by_hash = ScannerV2Organize(files, 1, @),
                            !.file_count = @ + Len(files),
                            !.total_size = @ + SumStatSizes(files, f),
                            !.scans = @ + 1]
    IN  [scanner |-> after,
         results |-> [files |-> files,
                      duplicates |-> find_groups(after.files_by_hash),
                      file_count |-> after.file_count,
                      total_size |-> after.total_size,
                      cache_hits |-> Cardinality({k \in 1..Len(files) : files[k].cached}),
                      cache_misses |-> Cardinality(ToProcess(files))],
         scan_cache |-> IF update_cache /\ use_cache
                        THEN V2UpdateCache(files, 1, rows) ELSE rows]

-----------------------------------------------------------------------------
(* The caching scanners on a tree that changes between scans *)

\* the scanned files: x is rewritten, y comes and goes
CachePaths == {P(Root, "x"), P(Root, "y")}

Other == Data(5, 2, 2, 2)

\* what x becomes: touched half a second later, or rewritten 1.5 s later
CacheFiles == {File(Small, 20), File(Other, 22)}

\* a stat() or an open() that fails on y
FaultSets == {NoFaults,
              [stat |-> {P(Root, "y")}, read |-> {}],
              [stat |-> {}, read |-> {P(Root, "y")}]}

\* a cache file that was cut short, and one that is not text
CorruptKinds == {"truncated", "not_utf8"}

WholeReportScanners == {"CachedFileScanner", "ProductionScanner"}

DupUnchanged ==
    UNCHANGED <<dirs, denied, frontend, operations, log_file, file_operations,
                db_operations, reversed, listing, dm, issued>>

ScanEvent(ok) == Event("scan", 0, ok)

\* history: the tree and the readability of its files at the scan whose rows
\* or report the cache holds
Seen(f, flt) == [valid |-> TRUE, fs |-> f, faults |-> flt]

\* the rows that are served are of files that the history has as they are now
Current(h, f, flt, files) ==
    /\ h.valid
    /\ h.faults = flt
    /\ \A k \in 1..Len(files) :
           files[k].cached =>
               files[k].path \in DOMAIN h.fs /\ h.fs[files[k].path] = f[files[k].path]

\* a new process constructs its scanner
CacheNewScanner ==
    /\ scanner.scans > 0
    /\ scanner' = NewInstance(scanner.kind)
    /\ ev' = OtherEvent
    /\ UNCHANGED <<fs, results, cachevars>>
    /\ DupUnchanged

\* CachedFileScanner(root).scan() or ProductionScanner(root).scan(), use_cache=True
WholeScan ==
    LET r == whole_scan(scanner, cache_files, fs, listing, faults, TRUE)
    IN  /\ scanner.kind \in WholeReportScanners
        /\ scanner.scans < MaxScans
        /\ scanner' = r.scanner
        /\ results' = IF r.raised THEN results ELSE r.results
        /\ cache_files' = r.cache_files
        /\ hist' = IF r.walked THEN Seen(fs, faults) ELSE hist
        /\ ev' = ScanEvent(~r.raised)
        /\ UNCHANGED <<fs, scan_cache, faults>>
        /\ DupUnchanged

\* ScannerV2(root, use_cache=True).scan(quick_scan, update_cache)
IncrementalScan ==
    \E quick_scan \in BOOLEAN, update_cache \in BOOLEAN, parallel_hashing \in BOOLEAN :
        \E completion \in Completions(ToProcess(
                V2Discover(walk(fs, listing), 1, fs, faults, scan_cache, <<>>))) :
            LET r == incremental_scan(scanner, scan_cache, fs, listing, faults, TRUE,
                                      quick_scan, update_cache, parallel_hashing, completion)
            IN  /\ scanner.kind = "ScannerV2"
                /\ scanner.scans < MaxScans
                /\ scanner' = r.scanner
                /\ results' = r.results
                /\ scan_cache' = r.scan_cache
                /\ hist' = IF ~update_cache THEN hist
                           ELSE IF r.results.cache_hits = 0 \/ Current(hist, fs, faults, r.results.files)
                           THEN Seen(fs, faults)
                           ELSE NoHist
                /\ ev' = ScanEvent(TRUE)
                /\ UNCHANGED <<fs, cache_files, faults>>
                /\ DupUnchanged

\* ScanCache().invalidate(root)
Invalidate ==
    \E d \in CacheRoots :
        /\ scanner.kind \in WholeReportScanners
        /\ cache_files[d].kind # "absent"
        /\ cache_files' = invalidate(cache_files, d)
        /\ ev' = Event("invalidate", 0, TRUE)
        /\ UNCHANGED <<fs, scanner, results, scan_cache, faults, hist>>
        /\ DupUnchanged

\* ScanCache().clear_all()
ClearAll ==
    /\ scanner.kind \in WholeReportScanners
    /\ \E d \in CacheRoots : cache_files[d].kind # "absent"
    /\ cache_files' = clear_all(cache_files)
    /\ ev' = Event("clear_all", 0, TRUE)
    /\ UNCHANGED <<fs, scanner, results, scan_cache, faults, hist>>
    /\ DupUnchanged

\* the cache file of the root is damaged on disk
CorruptCache ==
    \E kind \in CorruptKinds :
        /\ scanner.kind \in WholeReportScanners
        /\ cache_files[Root].kind = "json"
        /\ cache_files' = [cache_files EXCEPT ![Root] = [kind |-> kind]]
        /\ ev' = OtherEvent
        /\ UNCHANGED <<fs, scanner, results, scan_cache, faults, hist>>
        /\ DupUnchanged

\* another program rewrites or touches x
CacheEnvWrite ==
    \E file \in CacheFiles :
        /\ file.mtime > fs[P(Root, "x")].mtime
        /\ fs' = FsPut(fs, P(Root, "x"), file)
        /\ ev' = OtherEvent
        /\ UNCHANGED <<scanner, results, cachevars>>
        /\ DupUnchanged

\* another program creates or removes y
CacheEnvToggle ==
    /\ fs' = IF exists(fs, P(Root, "y")) THEN FsRemove(fs, P(Root, "y"))
             ELSE FsPut(fs, P(Root, "y"), File(Small, 19))
    /\ ev' = OtherEvent
    /\ UNCHANGED <<scanner, results, cachevars>>
    /\ DupUnchanged

\* y becomes unreadable, or readable again
CacheEnvFault ==
    \E flt \in FaultSets :
        /\ flt # faults
        /\ faults' = flt
        /\ ev' = OtherEvent
        /\ UNCHANGED <<fs, scanner, results, cache_files, scan_cache, hist>>
        /\ DupUnchanged

CacheTree ==
    /\ fs \in {[p \in S |-> File(Small, 19)] : S \in {{P(Root, "x")}, CachePaths}}
    /\ dirs = {Root}
    /\ denied = {}
    /\ frontend = "scanner"
    /\ operations = <<>>
    /\ log_file = [ok |-> FALSE, ops |-> <<>>]
    /\ file_operations = <<>>
    /\ db_operations = 0
    /\ reversed = {}
    /\ ev = OtherEvent
    /\ listing \in {o \in WalkOrders : o[1] = P(Root, "x")}
    /\ results = NoResults
    /\ dm = NoCall
    /\ cache_files = [NoCacheFiles EXCEPT ![OtherRoot] = json_dump(OtherRoot, NoResults)]
    /\ scan_cache = NoRows
    /\ faults = NoFaults
    /\ hist = NoHist
    /\ issued = 0

CacheEnv ==
    \/ CacheEnvWrite
    \/ CacheEnvToggle
    \/ CacheEnvFault

\* the scanners that cache a whole report per root
InitCache ==
    /\ CacheTree
    /\ scanner \in {NewInstance(k) : k \in WholeReportScanners}

NextCache ==
    \/ CacheNewScanner
    \/ WholeScan
    \/ Invalidate
    \/ ClearAll
    \/ CorruptCache
    \/ CacheEnv

SpecCache == InitCache /\ [][NextCache]_vars

\* the scanner that caches one row per file
InitIncremental ==
    /\ CacheTree
    /\ scanner = NewInstance("ScannerV2")

NextIncremental ==
    \/ CacheNewScanner
    \/ IncrementalScan
    \/ CacheEnv

SpecIncremental == InitIncremental /\ [][NextIncremental]_vars

-----------------------------------------------------------------------------
(* Claims about the per-file cache of the incremental scan *)

\* ScanCache.should_use_cache: one second, in half-second ticks
Tolerance == 2

Abs(n) == IF n < 0 THEN -n ELSE n

\* the hash a worker computes for p now, whichever of the two modes is used
Rehashed(f, flt, p) == {hash_result(f, flt, p, q)[1] : q \in BOOLEAN}

\* C11: in an incremental scan every file that has a cache row is a cache hit
\* carrying the row's fingerprint when its modification time is less than one
\* second away from the row's, and a cache miss that is hashed again when it
\* is more than one second away.
C11_PerFileCacheValidity ==
    [][ Scans =>
            \A k \in 1..Len(results'.files) :
                LET e == results'.files[k]
                    away == Abs(fs[e.path].mtime - scan_cache[e.path].modified_time)
                IN  e.path \in DOMAIN scan_cache =>
                        /\ away < Tolerance =>
                               e.cached /\ e.hash = scan_cache[e.path].file_hash
                        /\ away > Tolerance =>
                               ~e.cached /\ e.hash \in Rehashed(fs, faults, e.path) ]_vars

\* what C12 compares of a report: files, sizes, fingerprints, totals, groups
Entries(files) ==
    [k \in 1..Len(files) |->
        [path |-> files[k].path, size |-> files[k].size, hash |-> files[k].hash]]

ReportView(report) ==
    [files |-> Entries(report.files),
     file_count |-> report.file_count,
     total_size |-> report.total_size,
     duplicates |-> [i \in 1..Len(report.duplicates) |->
                        [hash |-> report.duplicates[i].hash,
                         files |-> Entries(report.duplicates[i].files)]]]

\* a scan of the directory by a scanner constructed with use_cache=False
Uncached(kind, f, order, flt, quick_scan) ==
    IF kind = "ScannerV2"
    THEN incremental_scan(NewInstance(kind), NoRows, f, order, flt, FALSE,
                          quick_scan, FALSE, FALSE, <<>>).results
    ELSE whole_scan(NewInstance(kind), NoCacheFiles, f, order, flt, FALSE).results

\* the directory is as the last scan that filled the cache saw it
UnchangedSinceCached == hist.valid /\ hist.fs = fs /\ hist.faults = faults

\* C12: a caching scan of a directory that is unchanged since the scan that
\* filled the cache returns the files, sizes, fingerprints, totals and
\* duplicate groups that a scan with caching disabled returns.
C12_CachedScanIdempotent ==
    [][ (Scans /\ ev'.ok /\ UnchangedSinceCached) =>
            \E quick_scan \in BOOLEAN :
                ReportView(results') =
                    ReportView(Uncached(scanner.kind, fs, listing, faults, quick_scan)) ]_vars

-----------------------------------------------------------------------------
(* Claims about the whole-report cache *)

\* ScanCache.get(root) finds a stored report
Stored == cache_get(cache_files, Root).found

SameAccumulators ==
    /\ scanner'.files_by_hash = scanner.files_by_hash
    /\ scanner'.file_count = scanner.file_count
    /\ scanner'.total_size = scanner.total_size
    /\ scanner'.errors = scanner.errors

Absent(cf, directory) ==
    LET got == cache_get(cf, directory)
    IN  cf[directory] = AbsentFile /\ ~got.raised /\ ~got.found

\* the report lists the files a walk of the tree can stat, as they are now
FullWalk(report, f, order, flt) ==
    LET seq == SelectSeq(walk(f, order), LAMBDA p : p \notin flt.stat)
    IN  /\ Len(report.files) = Len(seq)
        /\ \A k \in 1..Len(seq) :
               /\ report.files[k].path = seq[k]
               /\ report.files[k].size = f[seq[k]].data.size
               /\ report.files[k].st_mtime = f[seq[k]].mtime

C15_CorruptCacheIsAMiss ==
    [][ (Scans /\ cache_files[Root].kind \in CorruptKinds) =>
            /\ ~cache_get(cache_files, Root).raised
            /\ ~cache_get(cache_files, Root).found
            /\ ev'.ok
            /\ FullWalk(results', fs, listing, faults)
            /\ cache_files' = [cache_files EXCEPT ![Root] = json_dump(Root, results')] ]_vars

-----------------------------------------------------------------------------
(* Claims about hashing in the incremental scan *)

\* the report of the same scan() call with parallel_hashing off
Sequentially(quick_scan) ==
    incremental_scan(scanner, scan_cache, fs, listing, faults, TRUE, quick_scan,
                     FALSE, FALSE, <<>>).results

\* C16: whatever the order in which the hashing workers complete, the files
\* of the report are in discovery order, every file that was hashed carries
\* the hash of its own content, and files and duplicate groups (members in
\* order) are those that sequential hashing gives.
C16_ParallelAsSequential ==
    [][ Scans =>
            /\ FullWalk(results', fs, listing, faults)
            /\ \A k \in 1..Len(results'.files) :
                   LET e == results'.files[k]
                   IN  ~e.cached => e.hash \in Rehashed(fs, faults, e.path)
            /\ \E quick_scan \in BOOLEAN :
                   /\ results'.files = Sequentially(quick_scan).files
                   /\ results'.duplicates = Sequentially(quick_scan).duplicates ]_vars

\* a scan has hashed two files of different content
C16_Witness ==
    /\ ev.fn = "scan"
    /\ results.cache_misses >= 2
    /\ \E j, k \in 1..Len(results.files) :
           /\ j < k
           /\ ~results.files[j].cached
           /\ ~results.files[k].cached
           /\ results.files[j].hash # NoHash
           /\ results.files[k].hash # NoHash
           /\ results.files[j].hash # results.files[k].hash

-----------------------------------------------------------------------------
(* Claims about failures on single files *)

\* the files of the tree that a walk cannot stat or cannot hash
Unprocessed(f, order, flt) ==
    {p \in Range(walk(f, order)) :
        p \in flt.stat \/ (p \in flt.read /\ f[p].data.size > 0)}

\* C17: a scan that walks a tree in which a file cannot be stat'ed or hashed
\* returns normally, and its report has an errors collection that records
\* every such file.
C17_FileErrorsRecorded ==
    [][ (Scans /\ Absent(cache_files, Root)) =>
            /\ ev'.ok
            /\ \A p \in Unprocessed(fs, listing, faults) :
                   /\ "errors" \in DOMAIN results'
                   /\ \E i \in 1..Len(results'.errors) : results'.errors[i] = p ]_vars

\* the rows that the step wrote
Written == {p \in DOMAIN scan_cache' : p \notin DOMAIN scan_cache \/ scan_cache'[p] # scan_cache[p]}

\* C18: an incremental scan writes cache rows only for files whose fingerprint
\* it computed, so that no file is served from the cache without a
\* fingerprint.
C18_CacheOnlyAfterHash ==
    [][ Scans =>
            /\ \A p \in Written : scan_cache'[p].file_hash # NoHash
            /\ \A k \in 1..Len(results'.files) :
                   results'.files[k].cached => results'.files[k].hash # NoHash ]_vars

-----------------------------------------------------------------------------
(* The duplicates command of the CLIs (cli_prod.py, cli_v2.py) *)

CliActions == {"remove", "move"}

\* the scanned tree: a/x, a/y and perhaps a/b/x, of the same content
CliTrees ==
    {t \in UNION {[S -> {File(Small, 19), File(Small, 20)}] :
                      S \in {T \in SUBSET ScanPaths : CachePaths \subseteq T}} :
        t[P(Root, "x")].mtime = 19}

\* cli_prod: op_log.log_move(op['source'], op['destination']) for every
\* operation whose action is 'move_duplicate'
RECURSIVE LogMoves(_, _, _)
LogMoves(ops, k, log) ==
    IF k > Len(ops) THEN log
    ELSE LogMoves(ops, k + 1,
             IF ops[k].action = "move_duplicate"
             THEN Append(log, LogEntry(Len(log) + 1, "move", ops[k].source,
                                       ops[k].destination, TRUE))
             ELSE log)

\* cli_v2: db.log_file_operation(operation_id, op['action'], ...) for every
\* operation
RECURSIVE LogFileOperations(_, _, _, _)
LogFileOperations(ops, k, operation_id, rows) ==
    IF k > Len(ops) THEN rows
    ELSE LogFileOperations(ops, k + 1, operation_id,
             Append(rows,
                    FileOp(Len(rows) + 1, operation_id,
                           IF ops[k].action = "delete_duplicate"
                           THEN <<ops[k].action, ops[k].path, NoPath, FALSE>>
                           ELSE <<ops[k].action, ops[k].source, ops[k].destination, TRUE>>)))

\* DuplicateManager(dry_run).remove_duplicates / move_duplicates
Resolve(action, duplicates, keep_strategy, dry_run, f, d, den) ==
    IF duplicates = <<>> THEN [operations |-> <<>>, fs |-> f, dirs |-> d]
    ELSE IF action = "remove"
    THEN remove_duplicates(duplicates, keep_strategy, dry_run, f, den) @@ [dirs |-> d]
    ELSE move_duplicates(duplicates, TargetDir, keep_strategy, dry_run, f, d, den)

CallOf(action, duplicates, keep_strategy, dry_run, ops) ==
    IF duplicates = <<>> THEN NoCall
    ELSE [fn |-> IF action = "remove" THEN "remove_duplicates" ELSE "move_duplicates",
          keep_strategy |-> keep_strategy, dry_run |-> dry_run, operations |-> ops]

CliUnchanged == UNCHANGED <<denied, frontend, reversed, listing, faults, hist>>

\* cli_prod.cmd_duplicates with --yes: ProductionScanner, DuplicateManager,
\* OperationLog
CliProdDuplicates ==
    \E action \in CliActions, keep_strategy \in KeepStrategies, dry_run \in BOOLEAN :
        LET sc == whole_scan(NewInstance("ProductionScanner"), cache_files, fs, listing,
                             faults, TRUE)
            duplicates == sc.results.duplicates
            r == Resolve(action, duplicates, keep_strategy, dry_run, fs, dirs, denied)
            op_log == load(log_file)
            logged == IF action = "move" /\ ~dry_run
                      THEN LogMoves(r.operations, 1, op_log) ELSE op_log
        IN  /\ frontend = "cli_prod"
            /\ Len(logged) <= MaxOps
            /\ scanner' = sc.scanner
            /\ results' = sc.results
            /\ cache_files' = sc.cache_files
            /\ fs' = r.fs
            /\ dirs' = r.dirs
            /\ dm' = CallOf(action, duplicates, keep_strategy, dry_run, r.operations)
            /\ operations' = IF duplicates = <<>> THEN operations ELSE logged
            /\ log_file' = IF logged = op_log THEN log_file ELSE save(logged)
            /\ issued' = IF Len(logged) > issued THEN Len(logged) ELSE issued
            /\ ev' = Event("duplicates", 0, TRUE)
            /\ UNCHANGED <<file_operations, db_operations, scan_cache>>
            /\ CliUnchanged

\* cli_v2.cmd_duplicates, not interactive: Database, ScannerV2, DuplicateManager
CliV2Duplicates ==
    \E action \in CliActions, keep_strategy \in KeepStrategies, dry_run \in BOOLEAN :
        \E completion \in Completions(ToProcess(
                V2Discover(walk(fs, listing), 1, fs, faults, scan_cache, <<>>))) :
            LET operation_id == db_operations + 1
                sc == incremental_scan(NewInstance("ScannerV2"), scan_cache, fs, listing,
                                       faults, TRUE, FALSE, TRUE, TRUE, completion)
                duplicates == sc.results.duplicates
                r == Resolve(action, duplicates, keep_strategy, dry_run, fs, dirs, denied)
                logged == LogFileOperations(r.operations, 1, operation_id, file_operations)
            IN  /\ frontend = "cli_v2"
                /\ operation_id \in OperationIds
                /\ Len(logged) <= MaxOps
                /\ db_operations' = operation_id
                /\ scanner' = sc.scanner
                /\ results' = sc.results
                /\ scan_cache' = sc.scan_cache
                /\ fs' = r.fs
                /\ dirs' = r.dirs
                /\ dm' = CallOf(action, duplicates, keep_strategy, dry_run, r.operations)
                /\ file_operations' = logged
                /\ ev' = Event("duplicates", operation_id, TRUE)
                /\ UNCHANGED <<operations, log_file, cache_files, issued>>
                /\ CliUnchanged

\* another program takes away the permission to change a scanned file, or
\* gives it back
CliEnvChmod ==
    \E p \in (DOMAIN fs) \cap EnvPaths :
        /\ denied' = IF p \in denied THEN denied \ {p} ELSE denied \cup {p}
        /\ ev' = OtherEvent
        /\ UNCHANGED <<fs, dirs, frontend, operations, log_file, file_operations,
                       db_operations, reversed, scanvars, issued>>

InitCli ==
    /\ \E src \in CliTrees, tgt \in TargetTrees :
        /\ fs = [p \in (DOMAIN src) \cup tgt.files |->
                    IF p \in DOMAIN src THEN src[p] ELSE File(Small, 19)]
        /\ dirs = tgt.dirs
    /\ denied = {}
    /\ frontend \in {"cli_prod", "cli_v2"}
    /\ operations = <<>>
    /\ log_file = [ok |-> FALSE, ops |-> <<>>]
    /\ file_operations = <<>>
    /\ db_operations = 0
    /\ reversed = {}
    /\ ev = OtherEvent
    /\ listing \in {o \in WalkOrders : o[1] = P(Root, "x")}
    /\ scanner = NoScanner
    /\ results = NoResults
    /\ dm = NoCall
    /\ cache_files = NoCacheFiles
    /\ scan_cache = NoRows
    /\ faults = NoFaults
    /\ hist = NoHist
    /\ issued = 0

NextCli ==
    \/ CliProdDuplicates
    \/ CliV2Duplicates
    \/ CliEnvChmod

SpecCli == InitCli /\ [][NextCli]_vars

-----------------------------------------------------------------------------
(* Claims about what the duplicates command logs *)

\* the entries the step appended to the operation log of the front end
Appended ==
    IF frontend = "cli_prod"
    THEN LET old == Len(load(log_file))
         IN  [k \in 1..(Len(load(log_file')) - old) |->
                 LET e == load(log_file')[old + k]
                 IN  [type |-> e.type, source |-> e.source,
                      destination |-> e.destination, can_undo |-> e.can_undo]]
    ELSE LET old == Len(file_operations)
         IN  [k \in 1..(Len(file_operations') - old) |->
                 LET e == file_operations'[old + k]
                 IN  [type |-> e.action, source |-> e.source_path,
                      destination |-> e.destination_path, can_undo |-> e.can_undo]]

Count(q, Test(_)) == Cardinality({k \in 1..Len(q) : Test(q[k])})

\* C20: a duplicates command that is not a dry run appends to the operation
\* log exactly one undoable move entry for every file it moved and exactly
\* one delete entry that cannot be undone for every file it deleted.
C20_ResolutionIsLogged ==
    [][ (ev'.fn = "duplicates" /\ dm'.fn # "none" /\ ~dm'.dry_run) =>
            \A k \in 1..Len(dm'.operations) :
                LET op == dm'.operations[k]
                    IsMove(e) == /\ e.type \in {"move", "move_duplicate"}
                                 /\ e.source = op.source
                                 /\ e.destination = op.destination
                                 /\ e.can_undo
                    IsDelete(e) == /\ e.type \in {"delete", "delete_duplicate"}
                                   /\ e.source = op.path
                                   /\ ~e.can_undo
                IN  /\ op.status = "moved" => Count(Appended, IsMove) = 1
                    /\ op.status = "deleted" => Count(Appended, IsDelete) = 1 ]_vars

-----------------------------------------------------------------------------
(* Claims about what an undo reports *)

DeleteActions == {"delete", "delete_duplicate"}

\* C21: an undo request for a delete fails: OperationLog.undo_operation
\* returns False and leaves the entry not undone, UndoManager.undo_operation
\* does not list the file operation under 'undone', and neither changes the
\* filesystem for it.
C21_DeleteIsNeverUndone ==
    [][ ev'.fn = "undo_operation" =>
          /\ frontend = "OperationLog" =>
                LET i == FindOp(operations, ev'.id)
                IN  (i # 0 /\ operations[i].type = "delete") =>
                      /\ ~ev'.ok
                      /\ ~operations'[i].undone
                      /\ fs' = fs /\ dirs' = dirs
          /\ (frontend = "UndoManager" /\ ev'.ok) =>
                LET file_ops == get_file_operations(file_operations, ev'.id)
                IN  /\ \A k \in 1..Len(file_ops) :
                           file_ops[k].action \in DeleteActions =>
                               \A r \in Range(ev'.undone) : r.id # file_ops[k].id
                    /\ (\A k \in 1..Len(file_ops) : file_ops[k].action \in DeleteActions)
                           => fs' = fs /\ dirs' = dirs
      ]_vars

(***************************************************************************)
(* DuplicateManager called as a library: the caller passes any strategy    *)
(* name and any target, without the command line parser's choices in       *)
(* front of it.                                                            *)
(***************************************************************************)

\* a name outside the four strategies
UnknownStrategy == "largest"

KeepNames == KeepStrategies \cup {UnknownStrategy}

\* target_dir = None, as the command line leaves --target when it is not given
NoTarget == "None"

Targets == {TargetDir, NoTarget}

\* Path(target_dir) raises TypeError on None before the loop is entered
move_duplicates_to(duplicates, target_dir, keep_strategy, dry_run, f, d, den) ==
    IF target_dir = NoTarget
    THEN [raised |-> TRUE, fs |-> f, dirs |-> d, operations |-> <<>>]
    ELSE LET r == move_duplicates(duplicates, target_dir, keep_strategy, dry_run, f, d, den)
         IN  [raised |-> FALSE, fs |-> r.fs, dirs |-> r.dirs, operations |-> r.operations]

ApiCall(fn, keep_strategy, target_dir, dry_run, raised, ops) ==
    [fn |-> fn, keep_strategy |-> keep_strategy, target_dir |-> target_dir,
     dry_run |-> dry_run, raised |-> raised, operations |-> ops]

ApiScan ==
    LET r == scan(scanner, fs, listing, FALSE)
    IN  /\ scanner.scans = 0
        /\ scanner' = r.scanner
        /\ results' = r.results
        /\ UNCHANGED <<fs, dirs, denied, dm>>
        /\ UndoUnchanged

ApiRemoveDuplicates ==
    \E keep_strategy \in KeepNames, dry_run \in BOOLEAN :
        LET r == remove_duplicates(results.duplicates, keep_strategy, dry_run, fs, denied)
        IN  /\ results.duplicates # <<>>
            /\ dm.fn = "none"
            /\ fs' = r.fs
            /\ dm' = ApiCall("remove_duplicates", keep_strategy, NoTarget, dry_run,
                             FALSE, r.operations)
            /\ UNCHANGED <<dirs, denied, scanner, results>>
            /\ UndoUnchanged

ApiMoveDuplicates ==
    \E keep_strategy \in KeepNames, target_dir \in Targets, dry_run \in BOOLEAN :
        LET r == move_duplicates_to(results.duplicates, target_dir, keep_strategy, dry_run,
                                    fs, dirs, denied)
        IN  /\ results.duplicates # <<>>
            /\ dm.fn = "none"
            /\ fs' = r.fs
            /\ dirs' = r.dirs
            /\ dm' = ApiCall("move_duplicates", keep_strategy, target_dir, dry_run,
                             r.raised, r.operations)
            /\ UNCHANGED <<denied, scanner, results>>
            /\ UndoUnchanged

InitApi ==
    /\ InitDup
    /\ scanner.kind = "FileScanner"

NextApi ==
    \/ ApiScan
    \/ ApiRemoveDuplicates
    \/ ApiMoveDuplicates

SpecApi == InitApi /\ [][NextApi]_vars

InvalidArguments ==
    \/ dm'.keep_strategy \notin KeepStrategies
    \/ dm'.fn = "move_duplicates" /\ dm'.target_dir = NoTarget

\* C22: a call of remove_duplicates or move_duplicates with a strategy name
\* outside the four known ones, or of move_duplicates without a target
\* directory, is rejected: it raises, and it leaves every file and every
\* directory as it was.
C22_InvalidArgumentsFailFast ==
    [][ (dm.fn = "none" /\ dm'.fn # "none" /\ InvalidArguments) =>
            /\ dm'.raised
            /\ fs' = fs
            /\ dirs' = dirs ]_vars

(***************************************************************************)
(* Name collisions in the target directory of move_duplicates              *)
(***************************************************************************)

Moved(ops) == SelectSeq(ops, LAMBDA op : op.status = "moved")

\* the names taken in the target directory when the k-th move is made
TakenBefore(f, moved, k) ==
    {p \in DOMAIN f : p.dir = TargetDir} \cup {moved[j].destination : j \in 1..(k - 1)}

Numbered(name, n) == [dir |-> TargetDir, base |-> name, ctr |-> <<n>>]

\* C23: in a move_duplicates call that is not a dry run, a moved file lands in
\* the target directory under its own base name when that name is free there,
\* and otherwise under the name with the smallest counter _1, _2, ... that is
\* free; every file that was in the target directory before the call is still
\* there with its content, and no two moves of the call share a destination.
C23_MoveNameCollisions ==
    [][ (dm.fn = "none" /\ dm'.fn = "move_duplicates" /\ ~dm'.dry_run) =>
          LET moved == Moved(dm'.operations)
          IN  /\ \A k \in 1..Len(moved) :
                    LET src == moved[k].source
                        dst == moved[k].destination
                        taken == TakenBefore(fs, moved, k)
                    IN  /\ dst.dir = TargetDir
                        /\ dst.base = src.base
                        /\ dst \notin taken
                        /\ P(TargetDir, src.base) \notin taken => dst.ctr = <<>>
                        /\ P(TargetDir, src.base) \in taken =>
                              \E n \in 1..Cardinality(taken) :
                                  /\ dst.ctr = <<n>>
                                  /\ \A m \in 1..(n - 1) : Numbered(src.base, m) \in taken
              /\ \A p \in DOMAIN fs :
                    p.dir = TargetDir => p \in DOMAIN fs' /\ fs'[p] = fs[p]
              /\ \A j \in 1..Len(moved), k \in 1..Len(moved) :
                    moved[j].destination = moved[k].destination => j = k
      ]_vars

\* a/x and a/b/x were moved into a target directory that already held x: they
\* are there as x_1 and x_2
C23_Witness ==
    /\ dm.fn = "move_duplicates"
    /\ ~dm.dry_run
    /\ \E j, k \in 1..Len(dm.operations) :
          /\ dm.operations[j].status = "moved"
          /\ dm.operations[k].status = "moved"
          /\ dm.operations[j].destination = Numbered("x", 1)
          /\ dm.operations[k].destination = Numbered("x", 2)
    /\ P(TargetDir, "x") \in DOMAIN fs

(***************************************************************************)
(* The ids of the OperationLog                                             *)
(***************************************************************************)

DistinctIds(ops) ==
    \A j \in 1..Len(ops), k \in 1..Len(ops) : ops[j].id = ops[k].id => j = k

\* C24: whatever log_move, log_copy, log_delete, undo_operation and clear_log
\* calls were made, the entries of the log have pairwise distinct ids, and
\* an entry that is appended gets an id greater than every id given to an
\* entry before.
C24_IdsDistinctAndIncreasing ==
    [][ frontend = "OperationLog" =>
          /\ DistinctIds(operations')
          /\ Len(operations') = Len(operations) + 1 =>
                operations'[Len(operations')].id > issued ]_vars

-----------------------------------------------------------------------------
(***************************************************************************)
(* utils/atomic.py: moves through a temporary file, with a backup of the   *)
(* destination, and batches of them                                        *)
(***************************************************************************)

\* dst.with_suffix(dst.suffix + s): the name with s appended
with_suffix(p, s) == [p EXCEPT !.base = p.base \o s]

\* shutil.copy2(src, dst): content and modification time; when the disk fills
\* while the copy is written, the file that was opened for writing stays
copy2(f, den, src, dst, disk_full) ==
    IF ~exists(f, src) \/ dst \in den THEN [ok |-> FALSE, fs |-> f]
    ELSE IF disk_full
    THEN [ok |-> FALSE, fs |-> FsPut(f, dst, File(Data(0, 0, 0, 0), f[src].mtime))]
    ELSE [ok |-> TRUE, fs |-> FsPut(f, dst, f[src])]

\* Path.rename(target) on POSIX replaces the target
rename(f, den, src, dst) ==
    IF ~exists(f, src) \/ src \in den \/ dst \in den
    THEN [ok |-> FALSE, fs |-> f]
    ELSE [ok |-> TRUE, fs |-> FsPut(FsRemove(f, src), dst, f[src])]

\* for temp_file in self.temp_files: unlink it if it exists, errors swallowed
RECURSIVE cleanup_temp_files(_, _, _, _)
cleanup_temp_files(f, den, temp_files, k) ==
    IF k > Len(temp_files) THEN f
    ELSE cleanup_temp_files(unlink(f, den, temp_files[k]).fs, den, temp_files, k + 1)

\* for _, backup in self.backups: unlink it if it exists, errors swallowed
RECURSIVE cleanup_backups(_, _, _, _)
cleanup_backups(f, den, backups, k) ==
    IF k > Len(backups) THEN f
    ELSE cleanup_backups(unlink(f, den, backups[k].backup).fs, den, backups, k + 1)

\* one backup of _rollback: if the backup exists, unlink the original if it
\* exists, then shutil.move the backup onto it; an exception ends this backup
restore(f, d, den, b) ==
    IF ~exists(f, b.backup) THEN f
    ELSE IF exists(f, b.original) /\ ~unlink(f, den, b.original).ok THEN f
    ELSE shutil_move(unlink(f, den, b.original).fs, d, den, b.backup, b.original).fs

\* for original, backup in reversed(self.backups)
RECURSIVE restore_backups(_, _, _, _, _)
restore_backups(f, d, den, backups, k) ==
    IF k < 1 THEN f
    ELSE restore_backups(restore(f, d, den, backups[k]), d, den, backups, k - 1)

\* AtomicOperation._rollback
rollback(f, d, den, backups, temp_files) ==
    cleanup_temp_files(restore_backups(f, d, den, backups, Len(backups)), den, temp_files, 1)

\* AtomicOperation.__exit__: without an exception and completed, the backups
\* and the temporary files are removed; otherwise _rollback
exit(f, d, den, backups, temp_files, completed) ==
    IF completed
    THEN cleanup_temp_files(cleanup_backups(f, den, backups, 1), den, temp_files, 1)
    ELSE rollback(f, d, den, backups, temp_files)

\* the copy during which the disk fills
DiskFull == {"never", "backup", "temp"}

atomic_move(f, d, den, src, dst, create_backup, full) ==
    LET d1 == d \cup {dst.dir}
        backup_path == with_suffix(dst, ".backup")
        temp_path == with_suffix(dst, ".tmp")
        with_backup == exists(f, dst) /\ create_backup
        bk == IF with_backup THEN copy2(f, den, dst, backup_path, full = "backup")
              ELSE [ok |-> TRUE, fs |-> f]
        backups == IF with_backup /\ bk.ok
                   THEN <<[original |-> dst, backup |-> backup_path]>> ELSE <<>>
        cp == copy2(bk.fs, den, src, temp_path, full = "temp")
        rn == rename(cp.fs, den, temp_path, dst)
        ul == unlink(rn.fs, den, src)
        failed == IF ~bk.ok THEN [fs |-> bk.fs, temp_files |-> <<>>]
                  ELSE IF ~cp.ok THEN [fs |-> cp.fs, temp_files |-> <<>>]
                  ELSE IF ~rn.ok THEN [fs |-> rn.fs, temp_files |-> <<temp_path>>]
                  ELSE [fs |-> ul.fs, temp_files |-> <<temp_path>>]
    IN  IF ~(bk.ok /\ cp.ok /\ rn.ok /\ ul.ok)
        THEN [ok |-> FALSE, dirs |-> d1,
              fs |-> exit(failed.fs, d1, den, backups, failed.temp_files, FALSE)]
        ELSE [ok |-> TRUE, dirs |-> d1,
              fs |-> exit(ul.fs, d1, den, backups, <<temp_path>>, TRUE)]

\* batch_atomic_operation: the operations run one after another, each in its
\* own AtomicOperation; the batch's own AtomicOperation has no backup and no
\* temporary file registered when it exits
RECURSIVE batch_loop(_, _, _, _, _, _, _, _)
batch_loop(f, d, den, ops, on_error, k, succeeded, failed) ==
    IF k > Len(ops)
    THEN [ok |-> TRUE, fs |-> exit(f, d, den, <<>>, <<>>, TRUE), dirs |-> d,
          succeeded |-> succeeded, failed |-> failed, rolled_back |-> FALSE]
    ELSE LET r == atomic_move(f, d, den, ops[k].src, ops[k].dst, TRUE, "never")
         IN  IF r.ok
             THEN batch_loop(r.fs, r.dirs, den, ops, on_error, k + 1,
                             Append(succeeded, k), failed)
             ELSE IF on_error = "rollback"
             THEN [ok |-> FALSE, fs |-> exit(r.fs, r.dirs, den, <<>>, <<>>, FALSE),
                   dirs |-> r.dirs, succeeded |-> succeeded,
                   failed |-> Append(failed, k), rolled_back |-> TRUE]
             ELSE batch_loop(r.fs, r.dirs, den, ops, on_error, k + 1,
                             succeeded, Append(failed, k))

batch_atomic_operation(f, d, den, ops, on_error) ==
    batch_loop(f, d, den, ops, on_error, 1, <<>>, <<>>)

\* the files a call moves and the places it moves them to
AtomicSources == {P(Root, "x"), P(Root, "y")}

AtomicDestinations == {P(TargetDir, "x"), P(TargetDir, "y")}

AtomicFile(p) ==
    IF p = P(Root, "x") THEN File(Small, 19)
    ELSE IF p = P(Root, "y") THEN File(Other, 20)
    ELSE File(Data(5, 3, 3, 3), 18)

AtomicTrees ==
    {[p \in S |-> AtomicFile(p)] :
        S \in (SUBSET (AtomicSources \cup {P(TargetDir, "x")})) \ {{}}}

Batches ==
    {<<[src |-> s1, dst |-> d1], [src |-> s2, dst |-> d2]>> :
        s1 \in AtomicSources, d1 \in AtomicDestinations,
        s2 \in AtomicSources, d2 \in AtomicDestinations}

AtomicEvent(fn, ok, src, dst, create_backup) ==
    [fn |-> fn, ok |-> ok, src |-> src, dst |-> dst, create_backup |-> create_backup]

BatchEvent(r, ops, on_error) ==
    [fn |-> "batch_atomic_operation", ok |-> r.ok, ops |-> ops, on_error |-> on_error,
     succeeded |-> r.succeeded, failed |-> r.failed, rolled_back |-> r.rolled_back]

AtomicUnchanged ==
    UNCHANGED <<frontend, operations, log_file, file_operations, db_operations,
                reversed, scanvars, issued>>

AtomicMove ==
    \E src \in AtomicSources, dst \in AtomicDestinations, create_backup \in BOOLEAN,
       full \in DiskFull :
        LET r == atomic_move(fs, dirs, denied, src, dst, create_backup, full)
        IN  /\ ev = OtherEvent
            /\ fs' = r.fs
            /\ dirs' = r.dirs
            /\ ev' = AtomicEvent("atomic_move", r.ok, src, dst, create_backup)
            /\ UNCHANGED denied
            /\ AtomicUnchanged

BatchAtomicOperation ==
    \E ops \in Batches, on_error \in {"rollback", "continue"} :
        LET r == batch_atomic_operation(fs, dirs, denied, ops, on_error)
        IN  /\ ev = OtherEvent
            /\ fs' = r.fs
            /\ dirs' = r.dirs
            /\ ev' = BatchEvent(r, ops, on_error)
            /\ UNCHANGED denied
            /\ AtomicUnchanged

\* before the call the directory of a file is made read-only, or writable
\* again: the file can still be read, but not removed, renamed or replaced
AtomicEnvChmod ==
    \E p \in AtomicSources \cup AtomicDestinations :
        /\ ev = OtherEvent
        /\ denied' = IF p \in denied THEN {} ELSE {p}
        /\ ev' = OtherEvent
        /\ UNCHANGED <<fs, dirs>>
        /\ AtomicUnchanged

InitAtomic ==
    /\ fs \in AtomicTrees
    /\ dirs \in {{Root}, {Root, TargetDir}}
    /\ (\E p \in DOMAIN fs : p.dir = TargetDir) => TargetDir \in dirs
    /\ denied = {}
    /\ frontend = "atomic"
    /\ operations = <<>>
    /\ log_file = [ok |-> FALSE, ops |-> <<>>]
    /\ file_operations = <<>>
    /\ db_operations = 0
    /\ reversed = {}
    /\ ev = OtherEvent
    /\ listing = <<>>
    /\ scanner = NoScanner
    /\ results = NoResults
    /\ dm = NoCall
    /\ cache_files = NoCacheFiles
    /\ scan_cache = NoRows
    /\ faults = NoFaults
    /\ hist = NoHist
    /\ issued = 0

NextAtomic ==
    \/ AtomicMove
    \/ BatchAtomicOperation
    \/ AtomicEnvChmod

SpecAtomic == InitAtomic /\ [][NextAtomic]_vars

SameFile(f, g, p) ==
    /\ exists(f, p) <=> exists(g, p)
    /\ exists(f, p) => g[p] = f[p]

\* C25: an atomic_move(src, dst) of an existing file either succeeds, and then
\* dst holds what src held and src is gone, or fails, and then src is there
\* with its content, dst is as it was before the call (absent, or with its
\* previous content), and neither dst.tmp nor dst.backup exists.
C25_AtomicMoveAllOrNothing ==
    [][ (ev'.fn = "atomic_move" /\ ev'.create_backup /\ ev'.src # ev'.dst
            /\ exists(fs, ev'.src)) =>
          IF ev'.ok
          THEN /\ exists(fs', ev'.dst) /\ fs'[ev'.dst] = fs[ev'.src]
               /\ ~exists(fs', ev'.src)
          ELSE /\ SameFile(fs, fs', ev'.src)
               /\ SameFile(fs, fs', ev'.dst)
               /\ ~exists(fs', with_suffix(ev'.dst, ".tmp"))
               /\ ~exists(fs', with_suffix(ev'.dst, ".backup"))
      ]_vars

\* C26: a batch_atomic_operation with on_error='rollback' in which an operation
\* fails leaves every file as it was before the batch started.
C26_BatchRollback ==
    [][ (ev'.fn = "batch_atomic_operation" /\ ev'.on_error = "rollback" /\ ~ev'.ok) =>
            fs' = fs ]_vars

-----------------------------------------------------------------------------
(***************************************************************************)
(* Duplicate resolution after scans that may be answered from a cache      *)
(***************************************************************************)

\* C27: a duplicates command that removes files (not a dry run), run after
\* any earlier scans and removals on a tree no other program modifies, loses
\* no content: whatever bytes some file held before the command, some file
\* still holds after it.
C27_NoContentLost ==
    [][ (ev'.fn = "duplicates" /\ dm'.fn = "remove_duplicates" /\ ~dm'.dry_run) =>
            \A p \in DOMAIN fs : \E q \in DOMAIN fs' : fs'[q].data = fs[p].data ]_vars

-----------------------------------------------------------------------------
(***************************************************************************)
(* The options of a whole-report scan: include_hidden of scan() and         *)
(* exclude_dirs of the constructor                                          *)
(***************************************************************************)

\* filename.startswith('.')
HiddenNames == {".h"}

\* the name of a directory below the root, as os.walk lists it in dirs
DirName(d) == IF d = SubDir THEN "b" ELSE ""

DefaultExcludes == {".git", ".svn", "node_modules", "__pycache__", ".venv"}

ExcludeLists == {DefaultExcludes, {"b"}}

\* os.walk with dirs[:] pruned by exclude_dirs, and hidden files skipped
\* unless include_hidden
Admitted(p, include_hidden, exclude_dirs) ==
    /\ DirName(p.dir) \notin exclude_dirs
    /\ include_hidden \/ p.base \notin HiddenNames

walk_files(order, include_hidden, exclude_dirs) ==
    SelectSeq(order, LAMBDA p : Admitted(p, include_hidden, exclude_dirs))

\* Scanner(root, exclude_dirs, use_cache).scan(include_hidden)
options_scan(sc, cf, f, order, flt, use_cache, include_hidden, exclude_dirs) ==
    whole_scan(sc, cf, f, walk_files(order, include_hidden, exclude_dirs), flt, use_cache)

OptionsOrder == <<P(Root, ".h"), P(Root, "x"), P(SubDir, "x")>>

OptionsTrees ==
    {[p \in S |-> File(Small, 19)] : S \in (SUBSET Range(OptionsOrder)) \ {{}}}

OptionsEvent(include_hidden, exclude_dirs, use_cache, walked) ==
    [fn |-> "scan", include_hidden |-> include_hidden, exclude_dirs |-> exclude_dirs,
     use_cache |-> use_cache, walked |-> walked]

\* a new process: Scanner(root, exclude_dirs, use_cache).scan(include_hidden)
OptionsScan ==
    \E kind \in WholeReportScanners, include_hidden \in BOOLEAN,
       exclude_dirs \in ExcludeLists, use_cache \in BOOLEAN :
        LET r == options_scan(NewInstance(kind), cache_files, fs, listing, faults,
                              use_cache, include_hidden, exclude_dirs)
        IN  /\ scanner' = r.scanner
            /\ results' = r.results
            /\ cache_files' = r.cache_files
            /\ hist' = IF r.walked /\ use_cache THEN Seen(fs, faults) ELSE hist
            /\ ev' = OptionsEvent(include_hidden, exclude_dirs, use_cache, r.walked)
            /\ UNCHANGED <<fs, scan_cache, faults>>
            /\ DupUnchanged

\* cache --clear between two scans
OptionsInvalidate ==
    /\ cache_files' = invalidate(cache_files, Root)
    /\ hist' = NoHist
    /\ ev' = OtherEvent
    /\ UNCHANGED <<fs, scanner, results, scan_cache, faults>>
    /\ DupUnchanged

InitOptions ==
    /\ fs \in OptionsTrees
    /\ dirs = {Root, SubDir}
    /\ denied = {}
    /\ frontend = "scanner"
    /\ operations = <<>>
    /\ log_file = [ok |-> FALSE, ops |-> <<>>]
    /\ file_operations = <<>>
    /\ db_operations = 0
    /\ reversed = {}
    /\ ev = OtherEvent
    /\ listing = OptionsOrder
    /\ scanner = NoScanner
    /\ results = NoResults
    /\ dm = NoCall
    /\ cache_files = NoCacheFiles
    /\ scan_cache = NoRows
    /\ faults = NoFaults
    /\ hist = NoHist
    /\ issued = 0

NextOptions ==
    \/ OptionsScan
    \/ OptionsInvalidate

SpecOptions == InitOptions /\ [][NextOptions]_vars

ReportedPaths(r) == {r.files[k].path : k \in 1..Len(r.files)}

\* C28: the report of a caching-enabled scan lists the files that the
\* include_hidden flag and the exclusion list of this call admit, and no
\* others, whatever options the scan that filled the cache was made with.
C28_CachedReportHonoursOptions ==
    [][ (ev'.fn = "scan" /\ ev'.use_cache) =>
            ReportedPaths(results') =
                {p \in DOMAIN fs : Admitted(p, ev'.include_hidden, ev'.exclude_dirs)} ]_vars

-----------------------------------------------------------------------------
(***************************************************************************)
(* ScannerV2: quick scans and full scans over one scan_cache table          *)
(***************************************************************************)

QuickPaths == {P(Root, "x"), P(Root, "y")}

\* files above and below the smart_hash threshold
QuickData == {Small, BigA, BigB}

QuickTrees ==
    UNION {[S -> {File(d, 19) : d \in QuickData}] : S \in (SUBSET QuickPaths) \ {{}}}

QuickEvent(quick_scan, use_cache, update_cache) ==
    [fn |-> "scan", quick_scan |-> quick_scan, use_cache |-> use_cache,
     update_cache |-> update_cache]

\* a new process: ScannerV2(root, db, use_cache).scan(quick_scan, update_cache),
\* hashing sequentially
QuickOrFullScan ==
    \E quick_scan \in BOOLEAN, use_cache \in BOOLEAN, update_cache \in BOOLEAN :
        LET r == incremental_scan(NewInstance("ScannerV2"), scan_cache, fs, listing, faults,
                                  use_cache, quick_scan, update_cache, FALSE, <<>>)
        IN  /\ scanner' = r.scanner
            /\ results' = r.results
            /\ scan_cache' = r.scan_cache
            /\ hist' = IF update_cache /\ use_cache THEN Seen(fs, faults) ELSE hist
            /\ ev' = QuickEvent(quick_scan, use_cache, update_cache)
            /\ UNCHANGED <<fs, cache_files, faults>>
            /\ DupUnchanged

InitQuick ==
    /\ fs \in QuickTrees
    /\ dirs = {Root}
    /\ denied = {}
    /\ frontend = "scanner"
    /\ operations = <<>>
    /\ log_file = [ok |-> FALSE, ops |-> <<>>]
    /\ file_operations = <<>>
    /\ db_operations = 0
    /\ reversed = {}
    /\ ev = OtherEvent
    /\ listing \in {o \in WalkOrders : o[1] = P(Root, "x")}
    /\ scanner = NoScanner
    /\ results = NoResults
    /\ dm = NoCall
    /\ cache_files = NoCacheFiles
    /\ scan_cache = NoRows
    /\ faults = NoFaults
    /\ hist = NoHist
    /\ issued = 0

NextQuick == QuickOrFullScan

SpecQuick == InitQuick /\ [][NextQuick]_vars

\* C29: every fingerprint in the report of a scan run with quick_scan=False is
\* the full-content hash of its file, whatever an earlier quick scan of the
\* root stored in the cache.
C29_FullScanReportsFullHashes ==
    [][ (ev'.fn = "scan" /\ ~ev'.quick_scan) =>
            \A k \in 1..Len(results'.files) :
                LET e == results'.files[k]
                IN  e.hash # NoHash => e.hash = calculate_hash(fs[e.path].data) ]_vars

-----------------------------------------------------------------------------
(***************************************************************************)
(* What UndoManager.undo_operation lists as undone                          *)
(***************************************************************************)

\* the actions _undo_file_operation reverses
Reversible == {"move", "copy", "rename"}

\* C30: in the result of UndoManager.undo_operation every entry of 'undone'
\* is a file operation that was reversed (status success) or, under dry_run,
\* would be (status simulated), and every file operation whose action the
\* undo does not reverse (delete, archive entry, unknown action) is in
\* 'failed'.
C30_UndoneMeansReversed ==
    [][ (frontend = "UndoManager" /\ ev'.fn = "undo_operation" /\ ev'.ok) =>
          LET file_ops == get_file_operations(file_operations, ev'.id)
          IN  /\ \A r \in Range(ev'.undone) :
                    r.status = IF ev'.dry THEN "simulated" ELSE "success"
              /\ \A k \in 1..Len(file_ops) :
                    file_ops[k].action \notin Reversible =>
                        file_ops[k].id \in Range(ev'.failed)
      ]_vars

====
